---- MODULE Spec2Model ----
(***************************************************************************)
(* Model of the dumbdb storage core: the B+ tree (btree.go), the pager     *)
(* (pager.go), the page (page.go) and the LRU page cache (lru.go).         *)
(*                                                                         *)
(* A page is modelled by its decoded bytes: the node header (isLeaf,       *)
(* slotsTaken, prev, next) and the array of 8-byte entries, including the  *)
(* slots beyond slotsTaken.  A BTreeNode is a view: a copy of the header   *)
(* fields plus the page it refers to; the header reaches the page only on  *)
(* writeHeader.  Views that the Go code handles through pointers live in a *)
(* heap hp; heap cell 1 is the field tree.root, so that path[0] =          *)
(* &tree.root aliases it.                                                  *)
(***************************************************************************)
EXTENDS Integers, Sequences, FiniteSets, TLC

\* ------------------------------------------------------------------------
\* Program constants
\* ------------------------------------------------------------------------
InvalidPageID == 16777215
\* capacities: the "test values" of btree.go
BranchNodeCap == 3
LeafNodeCap == 4
IndexMaxEntriesPerPage == 32736

\* ------------------------------------------------------------------------
\* Bounds of the model
\* ------------------------------------------------------------------------
\* keys are drawn from 0..MaxKey
MaxKey == 9
\* number of 8-byte entry slots of a page that the model keeps
PhysSlots == LeafNodeCap + 2

Keys == 0..MaxKey
\* the values stored with a key: odd, so that no stored pair equals the
\* zero bytes of an unused slot
ValuesOf(k) == {2 * k + 1}

\* the trees the inserts start from: NewBTree followed by SeedLen ascending
\* inserts of keys above MaxKey, for each SeedLen of SeedLens
SeedLens == {0, 12, 20}

VARIABLES
  pg,        \* page id -> decoded page bytes (the pages the pager holds)
  nEntries,  \* AllocationIndex.nEntires
  root,      \* tree.root (a node view)
  rootID,    \* tree.rootID
  inserted,  \* ghost: the (key, value) pairs passed to successful Inserts
  last,      \* ghost: what the last Insert did
  procs,     \* goroutines calling the tree: position and locals of each
  rw,        \* Page.m of the tree's pages: write-locked pages, reader counts
  fatal,     \* the panic or runtime fatal error that ended the program
  cache,     \* the pager's LRUCache
  pages,     \* the Page objects made by readPage, by identity
  pageLocks, \* the indices of Pager.pageLocks that are locked
  threads,   \* goroutines calling the pager: position and locals of each
  evictions, \* ghost: the victims Put chose, with the pin count they had
  recency,   \* ghost: the cached ids, least recently passed to Get or Put first
  index,     \* AllocationIndex.root: the bitmap and the dirty flag of the page
  storageSize, \* Pager.storageSize
  disk,      \* the storage: its length, its index page, its data pages
  pgDirty,   \* the tree's pages that MarkDirty marked and no sync cleaned
  pgPins     \* the pin counts of the tree's pages

treeVars == <<pg, nEntries, root, rootID, inserted, last>>

concVars == <<procs, rw>>

lruVars == <<recency>>

diskVars == <<index, storageSize, disk, pgDirty, pgPins>>

pagerVars == <<cache, pages, pageLocks, threads, evictions, lruVars, diskVars>>

vars == <<pg, nEntries, root, rootID, inserted, last, procs, rw, fatal,
          cache, pages, pageLocks, threads, evictions, recency,
          index, storageSize, disk, pgDirty, pgPins>>

\* ------------------------------------------------------------------------
\* Pages and node views
\* ------------------------------------------------------------------------
ZeroEnts == [i \in 1..PhysSlots |-> <<0, 0>>]

\* a page freshly read from storage that was grown by Truncate: all zero
ZeroPage == [isLeaf |-> FALSE, slotsTaken |-> 0, prev |-> 0, next |-> 0,
             ents |-> ZeroEnts]

readNode(p, id) ==
  [isLeaf |-> p.isLeaf, slotsTaken |-> p.slotsTaken,
   prev |-> IF p.isLeaf THEN p.prev ELSE InvalidPageID,
   next |-> p.next, page |-> id]

\* st.hp[r] is the view behind pointer r; its page bytes are st.pg[view.page]
writeHeader(st, r) ==
  LET v == st.hp[r] IN
  [st EXCEPT !.pg[v.page].isLeaf = v.isLeaf,
             !.pg[v.page].slotsTaken = v.slotsTaken,
             !.pg[v.page].prev = v.prev,
             !.pg[v.page].next = v.next,
             !.dirty = @ \cup {v.page}]

len(st, r) == st.hp[r].slotsTaken

\* a truncate that keeps every entry
truncateNothing(st, r, n) == st

truncate(st, r, n) ==
  IF n >= st.hp[r].slotsTaken THEN st ELSE [st EXCEPT !.hp[r].slotsTaken = n]

\* the 8 bytes at NodeHeaderSize + 8*idx of page p; idx = -1 falls on the
\* prev and next fields of the header
EntAt(p, idx) ==
  IF idx = -1 THEN <<p.prev, p.next>>
  ELSE IF idx >= 0 /\ idx < PhysSlots THEN p.ents[idx + 1]
  ELSE <<0, 0>>

getBranch(st, r, idx) == EntAt(st.pg[st.hp[r].page], idx)

\* a getLeaf that reads the slot after idx
getLeafNext(st, r, idx) == EntAt(st.pg[st.hp[r].page], idx + 1)

getLeaf(st, r, idx) == EntAt(st.pg[st.hp[r].page], idx)

Min(S) == CHOOSE x \in S : \A y \in S : x <= y

\* the loop "for idx < len: if key <= k break": first index in 0..n-1 whose
\* key is >= key, else n
FirstGE(p, n, key) == Min({i \in 0..(n - 1) : key <= EntAt(p, i)[1]} \cup {n})

\* the loop "for idx < len: if k > key break": first index in 0..n-1 whose
\* key is > key, else n
FirstGT(p, n, key) == Min({i \in 0..(n - 1) : EntAt(p, i)[1] > key} \cup {n})

searchBranch(st, r, key) ==
  LET p == st.pg[st.hp[r].page]
      n == len(st, r)
      idx == FirstGE(p, n, key)
  IN IF idx < n THEN <<idx, EntAt(p, idx)[2]>> ELSE <<n, st.hp[r].next>>

searchLeaf(st, r, key) ==
  LET p == st.pg[st.hp[r].page]
      n == len(st, r)
      idx == FirstGE(p, n, key)
  IN IF idx < n THEN <<idx, EntAt(p, idx)[2]>> ELSE <<n, 0>>

\* copy(data[off+8:], data[off:off+rest]); put (key, x) at idx; slotsTaken++
InsertAt(st, r, idx, key, x) ==
  LET v == st.hp[r]
      e == st.pg[v.page].ents
      n == v.slotsTaken
      e2 == [i \in 1..PhysSlots |->
               IF i = idx + 1 THEN <<key, x>>
               ELSE IF i > idx + 1 /\ i <= n + 1 THEN e[i - 1]
               ELSE e[i]]
  IN [st EXCEPT !.pg[v.page].ents = e2, !.hp[r].slotsTaken = n + 1]

insertBranchAt(st, r, idx, key, id) == InsertAt(st, r, idx, key, id)

insertBranch(st, r, key, id) ==
  LET p == st.pg[st.hp[r].page]
      idx == FirstGT(p, len(st, r), key)
  IN insertBranchAt(st, r, idx, key, id)

removeBranchAt(st, r, idx) ==
  LET v == st.hp[r]
      p == st.pg[v.page]
      n == v.slotsTaken
      e2 == [i \in 1..PhysSlots |->
               IF i >= idx + 1 /\ i <= n THEN EntAt(p, i) ELSE p.ents[i]]
  IN [st EXCEPT !.pg[v.page].ents = e2, !.hp[r].slotsTaken = n - 1]

\* insertLeaf that does not look for the position: the pair goes to slot 0
insertLeafFront(st, r, key, value) == InsertAt(st, r, 0, key, value)

insertLeaf(st, r, key, value) ==
  LET p == st.pg[st.hp[r].page]
      idx == FirstGT(p, len(st, r), key)
  IN InsertAt(st, r, idx, key, value)

\* copy(node.data[12:], other.data[from:to]); node.slotsTaken = to - from
CopyFrom(st, r, other, from, to) ==
  LET v == st.hp[r]
      src == st.pg[st.hp[other].page]
      e == st.pg[v.page].ents
      e2 == [i \in 1..PhysSlots |->
               IF i <= to - from THEN EntAt(src, from + i - 1) ELSE e[i]]
  IN [st EXCEPT !.pg[v.page].ents = e2, !.hp[r].slotsTaken = to - from]

copyLeafFrom(st, r, other, from, to) == CopyFrom(st, r, other, from, to)

copyBranchFrom(st, r, other, from, to) == CopyFrom(st, r, other, from, to)

\* ------------------------------------------------------------------------
\* The pager as the tree sees it while every page it fetched stays pinned
\* and cached: AllocatePage hands out the next id, FetchPage(id) returns the
\* resident page of an allocated id (zero bytes on the first fetch).
\* ------------------------------------------------------------------------
NoErr == "none"

\* sequencing: the value v of one statement handed to the statements F that
\* follow it
Then(v, F(_)) == F(v)

AllocatePage(st) ==
  IF st.n >= IndexMaxEntriesPerPage
  THEN [st |-> [st EXCEPT !.err = "ErrNoFreePages"], id |-> InvalidPageID]
  ELSE [st |-> [st EXCEPT !.n = st.n + 1], id |-> st.n]

PageSize == 4096

\* a GetOffset that has an offset for every id
GetOffsetAny(n, id) == (1 + id) * PageSize

GetOffset(n, id) == IF id >= n THEN -1 ELSE (1 + id) * PageSize

\* a storage of one zero page, as NewPager makes of an empty storage
EmptyStorage == [size |-> PageSize, n |-> 0, bits |-> {}, data |-> <<>>]

\* the page readPage(id) makes of the bytes of the storage: zero where
\* nothing was written
readPage(st, id) ==
  IF GetOffset(st.n, id) \in DOMAIN st.disk.data
  THEN st.disk.data[GetOffset(st.n, id)]
  ELSE ZeroPage

\* FetchPage(id): error when the index does not hold id; the page is read
\* on the first fetch, and every fetch pins it
FetchPage(st, id) ==
  IF id >= st.n THEN [st EXCEPT !.err = "ErrPageNotAllocated"]
  ELSE Then(IF id \in DOMAIN st.pg THEN st
            ELSE [st EXCEPT !.pg = (id :> readPage(st, id)) @@ st.pg],
            LAMBDA f :
       [f EXCEPT !.pin = (id :> (IF id \in DOMAIN f.pin THEN f.pin[id] ELSE 0)
                                + 1) @@ f.pin])

\* ------------------------------------------------------------------------
\* B+ tree
\* st = [pg, n, hp, rootID, err]; operators that can fail return st with
\* st.err set and the caller returns at once, as the Go code does
\* ------------------------------------------------------------------------
NewView(isLeaf, id) ==
  [isLeaf |-> isLeaf, slotsTaken |-> 0, prev |-> InvalidPageID,
   next |-> InvalidPageID, page |-> id]

allocateNode(st, isLeaf) ==
  Then(AllocatePage(st), LAMBDA a :
  IF a.st.err # NoErr THEN [st |-> a.st, id |-> InvalidPageID, ref |-> 0] ELSE
  Then(FetchPage(a.st, a.id), LAMBDA f :
  IF f.err # NoErr THEN [st |-> f, id |-> InvalidPageID, ref |-> 0] ELSE
  Then([f EXCEPT !.hp = Append(f.hp, NewView(isLeaf, a.id))], LAMBDA s1 :
  [st |-> writeHeader(s1, Len(s1.hp)), id |-> a.id, ref |-> Len(s1.hp)])))

splitNode(st, r) ==
  Then(allocateNode(st, st.hp[r].isLeaf), LAMBDA a :
  IF a.st.err # NoErr
  THEN [st |-> a.st, mid |-> 0, id |-> InvalidPageID, ref |-> 0] ELSE
  Then(len(a.st, r), LAMBDA n :
  Then(n \div 2, LAMBDA half :
  IF a.st.hp[r].isLeaf
  THEN
    Then(getLeaf(a.st, r, half - 1)[1], LAMBDA mid :
    Then(copyLeafFrom(a.st, a.ref, r, half, n), LAMBDA s2 :
    [st |-> truncate(s2, r, half), mid |-> mid, id |-> a.id, ref |-> a.ref]))
  ELSE
    Then(getBranch(a.st, r, half), LAMBDA e :
    Then(copyBranchFrom(a.st, a.ref, r, half + 1, n), LAMBDA s2 :
    Then([s2 EXCEPT !.hp[a.ref].next = s2.hp[r].next, !.hp[r].next = e[2]],
         LAMBDA s3 :
    [st |-> truncate(s3, r, half), mid |-> e[1], id |-> a.id,
     ref |-> a.ref]))))))

\* getMaxKey walks views by value: v is the view, the page bytes are in st
RECURSIVE getMaxKey(_, _)
getMaxKey(st, v) ==
  IF v.isLeaf
  THEN [st |-> st, key |-> EntAt(st.pg[v.page], v.slotsTaken - 1)[1]]
  ELSE Then(FetchPage(st, v.next), LAMBDA f :
       IF f.err # NoErr THEN [st |-> f, key |-> 0]
       ELSE getMaxKey(f, readNode(f.pg[v.next], v.next)))

\* node.writeHeader() of three nodes in the order the code calls them
writeHeaders(st, r1, r2, r3) ==
  writeHeader(writeHeader(writeHeader(st, r1), r2), r3)

\* path is a sequence of pointers to views; path[1] = 1 = &tree.root
RECURSIVE splitBranch(_, _, _)
splitBranch(st, path, key) ==
  IF Len(path) = 1
  THEN
    Then(allocateNode(st, FALSE), LAMBDA a :
    IF a.st.err # NoErr THEN [st |-> a.st, mid |-> 0, right |-> 0] ELSE
    Then(splitNode(a.st, path[1]), LAMBDA sp :
    IF sp.st.err # NoErr THEN [st |-> sp.st, mid |-> 0, right |-> 0] ELSE
    Then([sp.st EXCEPT !.hp[a.ref].next = sp.id], LAMBDA s1 :
    Then(insertBranch(s1, a.ref, sp.mid, s1.rootID), LAMBDA s2 :
    Then(writeHeaders(s2, a.ref, path[1], sp.ref), LAMBDA s3 :
    \* tree.root = parent; tree.rootID = parentID
    [st |-> [s3 EXCEPT !.hp[1] = s3.hp[a.ref], !.rootID = a.id],
     mid |-> sp.mid, right |-> sp.ref])))))
  ELSE
    Then(path[Len(path)], LAMBDA left :
    Then(path[Len(path) - 1], LAMBDA parent0 :
    Then(len(st, parent0) = BranchNodeCap, LAMBDA full :
    Then(IF full THEN splitBranch(st, SubSeq(path, 1, Len(path) - 1), key)
         ELSE [st |-> st, mid |-> 0, right |-> 0], LAMBDA rec :
    IF rec.st.err # NoErr THEN [st |-> rec.st, mid |-> 0, right |-> 0] ELSE
    Then(IF full /\ key > rec.mid THEN rec.right ELSE parent0,
         LAMBDA parent :
    Then(splitNode(rec.st, left), LAMBDA sp :
    IF sp.st.err # NoErr THEN [st |-> sp.st, mid |-> 0, right |-> 0] ELSE
    Then(searchBranch(sp.st, parent, key), LAMBDA sb :
    Then(sb[1] = len(sp.st, parent), LAMBDA isRightmost :
    Then(IF isRightmost THEN sp.st
         ELSE removeBranchAt(sp.st, parent, sb[1]), LAMBDA s1 :
    Then(insertBranch(s1, parent, sp.mid, sb[2]), LAMBDA s2 :
    IF isRightmost
    THEN
      Then([s2 EXCEPT !.hp[parent].next = sp.id], LAMBDA s3 :
      [st |-> writeHeaders(s3, parent, left, sp.ref), mid |-> sp.mid,
       right |-> sp.ref])
    ELSE
      Then(getMaxKey(s2, s2.hp[sp.ref]), LAMBDA m :
      IF m.st.err # NoErr
      THEN [st |-> m.st, mid |-> sp.mid, right |-> sp.ref] ELSE
      Then(insertBranch(m.st, parent, m.key, sp.id), LAMBDA s3 :
      [st |-> writeHeaders(s3, parent, left, sp.ref), mid |-> sp.mid,
       right |-> sp.ref]))))))))))))

insertLeafOverflow(st, node, parent, key, value) ==
  Then(splitNode(st, node), LAMBDA sp :
  IF sp.st.err # NoErr THEN sp.st ELSE
  Then(sp.ref, LAMBDA newLeaf :
  Then(IF key < sp.mid THEN insertLeaf(sp.st, node, key, value)
       ELSE insertLeaf(sp.st, newLeaf, key, value), LAMBDA s1 :
  Then(searchBranch(s1, parent, key), LAMBDA sb :
  Then(sb[2], LAMBDA nodeID :
  Then(sb[1] = len(s1, parent), LAMBDA isRightmost :
  Then(IF isRightmost THEN s1 ELSE removeBranchAt(s1, parent, sb[1]),
       LAMBDA s2 :
  Then([s2 EXCEPT !.hp[newLeaf].next = s2.hp[node].next,
                  !.hp[newLeaf].prev = nodeID,
                  !.hp[node].next = sp.id], LAMBDA s3 :
  Then(s3.hp[newLeaf].next, LAMBDA nxt :
  Then(IF nxt # InvalidPageID THEN FetchPage(s3, nxt) ELSE s3, LAMBDA f :
  IF f.err # NoErr THEN f ELSE
  \* nextNode := readNode(nextPage); nextNode.prev = newLeafID;
  \* nextNode.writeHeader()
  Then(IF nxt # InvalidPageID
       THEN writeHeader(
              [f EXCEPT !.hp = Append(f.hp, [readNode(f.pg[nxt], nxt)
                                               EXCEPT !.prev = sp.id])],
              Len(f.hp) + 1)
       ELSE f, LAMBDA s4 :
  Then(insertBranch(s4, parent, sp.mid, nodeID), LAMBDA s5 :
  Then(IF isRightmost
       THEN [s5 EXCEPT !.hp[parent].next = sp.id]
       ELSE insertBranch(s5, parent,
                         getLeaf(s5, newLeaf, len(s5, newLeaf) - 1)[1],
                         sp.id), LAMBDA s6 :
  writeHeaders(s6, parent, node, newLeaf))))))))))))))

insertSlow(st, path, key, value) ==
  Then(path[Len(path)], LAMBDA node :
  Then(path[Len(path) - 1], LAMBDA parent0 :
  Then(len(st, parent0) = BranchNodeCap, LAMBDA full :
  Then(IF full THEN splitBranch(st, SubSeq(path, 1, Len(path) - 1), key)
       ELSE [st |-> st, mid |-> 0, right |-> 0], LAMBDA sb :
  IF sb.st.err # NoErr THEN sb.st ELSE
  Then(IF full /\ key > sb.mid THEN sb.right ELSE parent0, LAMBDA parent :
  insertLeafOverflow(sb.st, node, parent, key, value))))))

\* the loop of Insert: path holds the pointers pushed so far
RECURSIVE InsertLoop(_, _, _, _)
InsertLoop(st, path, key, value) ==
  Then(path[Len(path)], LAMBDA node :
  IF st.hp[node].isLeaf
  THEN IF len(st, node) < LeafNodeCap
       THEN writeHeader(insertLeaf(st, node, key, value), node)
       ELSE insertSlow(st, path, key, value)
  ELSE
    Then(searchBranch(st, node, key)[2], LAMBDA id :
    IF id = InvalidPageID THEN [st EXCEPT !.err = "panic: no valid path"] ELSE
    Then(FetchPage(st, id), LAMBDA f :
    IF f.err # NoErr THEN f ELSE
    InsertLoop([f EXCEPT !.hp = Append(f.hp, readNode(f.pg[id], id))],
               Append(path, Len(f.hp) + 1), key, value))))

\* the tree machine state made of the variables, tree.root in heap cell 1
TreeState(p, n, rt, rid) ==
  [pg |-> p, n |-> n, hp |-> <<rt>>, rootID |-> rid, err |-> NoErr,
   dirty |-> {}, pin |-> <<>>, disk |-> EmptyStorage]

\* Insert without its locking: the state after the call
Insert(st, key, value) == InsertLoop(st, <<1>>, key, value)

\* NewBTree on a pager with n entries allocated
NewBTree(st0) ==
  Then(AllocatePage(st0), LAMBDA a :
  IF a.st.err # NoErr THEN a.st ELSE
  Then(FetchPage(a.st, a.id), LAMBDA f :
  IF f.err # NoErr THEN f ELSE
  Then([f EXCEPT !.hp = <<NewView(FALSE, a.id)>>, !.rootID = a.id],
       LAMBDA s1 :
  Then(allocateNode(s1, TRUE), LAMBDA l :
  IF l.st.err # NoErr THEN l.st ELSE
  Then(allocateNode(l.st, TRUE), LAMBDA r :
  IF r.st.err # NoErr THEN r.st ELSE
  Then(insertBranch(r.st, 1, 0, l.id), LAMBDA s2 :
  Then([s2 EXCEPT !.hp[1].next = r.id,
                  !.hp[l.ref].next = r.id,
                  !.hp[r.ref].prev = l.id], LAMBDA s3 :
  writeHeaders(s3, l.ref, r.ref, 1))))))))

\* ------------------------------------------------------------------------
\* Search and the cursor: a cursor is [idx, node (a view), err]
\* ------------------------------------------------------------------------
\* the loop of Search from node v: the cursor it returns (idx, node, err)
\* and the state st it leaves the pager in
RECURSIVE SearchLoop(_, _, _)
SearchLoop(st, v, key) ==
  LET s == [st EXCEPT !.hp = <<v>>] IN
  IF v.isLeaf
  THEN [idx |-> searchLeaf(s, 1, key)[1], node |-> v, err |-> NoErr,
        st |-> st]
  ELSE LET next == searchBranch(s, 1, key)[2] IN
       IF next = InvalidPageID
       THEN [idx |-> 0, node |-> v, err |-> "panic: no valid branch",
             st |-> st]
       ELSE LET f == FetchPage(st, next) IN
            IF f.err # NoErr
            THEN [idx |-> 0, node |-> v, err |-> f.err, st |-> st]
            ELSE SearchLoop(f, readNode(f.pg[next], next), key)

\* the cursor Search returns
Search(st, key) ==
  Then(SearchLoop(st, st.hp[1], key), LAMBDA r :
  [idx |-> r.idx, node |-> r.node, err |-> r.err])

\* Cursor.Get
Get(st, c) == EntAt(st.pg[c.node.page], c.idx)

\* Cursor.Forward: the cursor after the call and the returned boolean
Forward(st, c) ==
  IF c.err # NoErr THEN [c |-> c, ok |-> FALSE]
  ELSE LET i == c.idx + 1 IN
       IF i >= c.node.slotsTaken
       THEN IF c.node.next = InvalidPageID
            THEN [c |-> [c EXCEPT !.idx = i], ok |-> FALSE]
            ELSE LET f == FetchPage(st, c.node.next) IN
                 IF f.err # NoErr
                 THEN [c |-> [c EXCEPT !.idx = i, !.err = f.err], ok |-> FALSE]
                 ELSE [c |-> [c EXCEPT !.idx = 0,
                                !.node = readNode(f.pg[c.node.next],
                                                  c.node.next)],
                       ok |-> TRUE]
       ELSE [c |-> [c EXCEPT !.idx = i], ok |-> TRUE]

\* ------------------------------------------------------------------------
\* Sequential specification: one thread inserts pairwise distinct keys into
\* a tree made by NewBTree on an empty pager
\* ------------------------------------------------------------------------
EmptyPager ==
  [pg |-> <<>>, n |-> 0, hp |-> <<>>, rootID |-> InvalidPageID, err |-> NoErr,
   dirty |-> {}, pin |-> <<>>, disk |-> EmptyStorage]

InsertedKeys == {p[1] : p \in inserted}

\* the state after the Inserts of seq, each on the state the previous left
RECURSIVE InsertAll(_, _)
InsertAll(st, seq) ==
  IF seq = <<>> \/ st.err # NoErr THEN st
  ELSE InsertAll(Insert([st EXCEPT !.hp = <<st.hp[1]>>], seq[1][1], seq[1][2]),
                 Tail(seq))

SeedPairs(n) ==
  [i \in 1..n |-> <<MaxKey + i, CHOOSE v \in ValuesOf(MaxKey + i) : TRUE>>]

\* no goroutine calls the tree concurrently
ConcUnused ==
  /\ procs = <<>>
  /\ rw = [w |-> {}, r |-> <<>>]

\* no storage is modelled, and no dirty flag or pin count of the tree's pages
DiskUnused ==
  /\ index = <<>>
  /\ storageSize = 0
  /\ disk = <<>>
  /\ pgDirty = {}
  /\ pgPins = <<>>

\* the LRU cache and the pager's fetch path are not exercised
PagerUnused ==
  /\ cache = <<>>
  /\ pages = <<>>
  /\ pageLocks = {}
  /\ threads = <<>>
  /\ evictions = {}
  /\ recency = <<>>
  /\ DiskUnused

\* the variables of the tree after NewBTree and the Inserts of seq on a
\* pager with start pages allocated
TreeInit2(seq, start) ==
  LET t == InsertAll(NewBTree([EmptyPager EXCEPT !.n = start]), seq) IN
  /\ pg = t.pg
  /\ nEntries = t.n
  /\ root = t.hp[1]
  /\ rootID = t.rootID
  /\ inserted = {seq[i] : i \in 1..Len(seq)}
  /\ last = [op |-> "NewBTree", err |-> t.err, alloc |-> 3]

\* the variables of the tree after NewBTree and the Inserts of seq
TreeInit(seq) ==
  LET t == InsertAll(NewBTree(EmptyPager), seq) IN
  /\ pg = t.pg
  /\ nEntries = t.n
  /\ root = t.hp[1]
  /\ rootID = t.rootID
  /\ inserted = {seq[i] : i \in 1..Len(seq)}
  /\ last = [op |-> "NewBTree", err |-> t.err, alloc |-> 3]

Init ==
  /\ \E n \in SeedLens : TreeInit(SeedPairs(n))
  /\ fatal = NoErr
  /\ ConcUnused
  /\ PagerUnused

DoInsert(k, v) ==
  LET t == Insert(TreeState(pg, nEntries, root, rootID), k, v) IN
  /\ pg' = t.pg
  /\ nEntries' = t.n
  /\ root' = t.hp[1]
  /\ rootID' = t.rootID
  /\ inserted' = IF t.err = NoErr THEN inserted \cup {<<k, v>>} ELSE inserted
  /\ last' = [op |-> "Insert", err |-> t.err,
              alloc |-> t.n - nEntries]

InsertAct ==
  /\ last.err = NoErr
  /\ \E k \in Keys \ InsertedKeys : \E v \in ValuesOf(k) : DoInsert(k, v)
  /\ UNCHANGED <<concVars, fatal, pagerVars>>

Next == InsertAct

Spec == Init /\ [][Next]_vars

NoError == last.err = NoErr

\* ------------------------------------------------------------------------
\* Reading the tree structure off the pages (for the properties below)
\* ------------------------------------------------------------------------
Valid(id) == id # InvalidPageID /\ id \in DOMAIN pg

\* the valid entries of page id
EntsOf(id) == SubSeq(pg[id].ents, 1, pg[id].slotsTaken)

KeysOf(id) == {EntsOf(id)[i][1] : i \in 1..pg[id].slotsTaken}

\* child pointers of a branch page: its entries' children, then next
ChildSeq(id) ==
  [i \in 1..(pg[id].slotsTaken + 1) |->
     IF i <= pg[id].slotsTaken THEN pg[id].ents[i][2] ELSE pg[id].next]

ChildSet(id) == {ChildSeq(id)[i] : i \in 1..(pg[id].slotsTaken + 1)}

MaxDepth == 6

\* the pages reachable from id in at most fuel steps down
RECURSIVE Reach(_, _)
Reach(id, fuel) ==
  IF ~Valid(id) THEN {}
  ELSE IF pg[id].isLeaf \/ fuel = 0 THEN {id}
  ELSE {id} \cup UNION {Reach(c, fuel - 1) : c \in ChildSet(id)}

Nodes == Reach(rootID, MaxDepth)

Leaves == {id \in Nodes : pg[id].isLeaf}

Branches == {id \in Nodes : ~pg[id].isLeaf}

\* the lengths of the paths from id down to a leaf (an invalid child
\* pointer counts as a path of length -1)
RECURSIVE LeafDepths(_, _, _)
LeafDepths(id, d, fuel) ==
  IF ~Valid(id) THEN {-1}
  ELSE IF pg[id].isLeaf THEN {d}
  ELSE IF fuel = 0 THEN {-1}
  ELSE UNION {LeafDepths(c, d + 1, fuel - 1) : c \in ChildSet(id)}

\* the keys stored in the leaves below id
SubtreeKeys(id) ==
  UNION {KeysOf(l) : l \in {x \in Reach(id, MaxDepth) : pg[x].isLeaf}}

\* the leaf reached from the root by always taking the first child
RECURSIVE Leftmost(_, _)
Leftmost(id, fuel) ==
  IF ~Valid(id) \/ pg[id].isLeaf \/ fuel = 0 THEN id
  ELSE Leftmost(ChildSeq(id)[1], fuel - 1)

\* the leaf ids met from id following next, at most fuel of them
RECURSIVE Chain(_, _)
Chain(id, fuel) ==
  IF ~Valid(id) \/ fuel = 0 THEN <<>>
  ELSE <<id>> \o Chain(pg[id].next, fuel - 1)

LeafChain == Chain(Leftmost(rootID, MaxDepth), Cardinality(DOMAIN pg) + 1)

Balanced ==
  /\ Cardinality(LeafDepths(rootID, 0, MaxDepth)) = 1
  /\ -1 \notin LeafDepths(rootID, 0, MaxDepth)

SortedNode(id) ==
  \A i \in 2..pg[id].slotsTaken : pg[id].ents[i - 1][1] <= pg[id].ents[i][1]

BranchOrdered(id) ==
  /\ Valid(pg[id].next)
  /\ \A i \in 1..pg[id].slotsTaken :
       \A k \in SubtreeKeys(pg[id].ents[i][2]) :
         /\ k <= pg[id].ents[i][1]
         /\ i > 1 => k > pg[id].ents[i - 1][1]
  /\ pg[id].slotsTaken > 0 =>
       \A k \in SubtreeKeys(pg[id].next) :
         k > pg[id].ents[pg[id].slotsTaken][1]

ChainConsistent ==
  LET ch == LeafChain IN
  /\ {ch[i] : i \in 1..Len(ch)} = Leaves
  /\ Len(ch) = Cardinality(Leaves)
  /\ \A i \in 1..Len(ch) : pg[ch[i]].isLeaf
  /\ \A i \in 1..(Len(ch) - 1) :
       \A a \in KeysOf(ch[i]) : \A b \in KeysOf(ch[i + 1]) : a <= b
  /\ Len(ch) > 0 => pg[ch[1]].prev = InvalidPageID
  /\ Len(ch) > 0 => pg[ch[Len(ch)]].next = InvalidPageID
  /\ \A l \in Leaves :
       pg[l].prev # InvalidPageID =>
         /\ Valid(pg[l].prev)
         /\ pg[pg[l].prev].isLeaf
         /\ pg[pg[l].prev].next = l

\* the cursor positions a scan visits: the cursor of Search, then the cursor
\* after every Forward that returned true (fuel bounds the walk)
RECURSIVE ScanPositions(_, _, _)
ScanPositions(st, c, fuel) ==
  IF fuel = 0 THEN <<c>>
  ELSE LET f == Forward(st, c) IN
       IF f.ok THEN <<c>> \o ScanPositions(st, f.c, fuel - 1) ELSE <<c>>

\* the pairs of set S in ascending key order
RECURSIVE SortedPairs(_)
SortedPairs(S) ==
  IF S = {} THEN <<>>
  ELSE LET p == CHOOSE x \in S : \A y \in S : x[1] <= y[1]
       IN <<p>> \o SortedPairs(S \ {p})

Cur == TreeState(pg, nEntries, root, rootID)

\* ------------------------------------------------------------------------
\* Properties of the sequential specification Spec
\* ------------------------------------------------------------------------

\* C1: after any sequence of Inserts with pairwise distinct keys, for every
\* inserted pair (k, v) the cursor returned by Search(k) has no error and its
\* Get() returns exactly (k, v).
C1_SearchFindsInserted ==
  NoError =>
    \A p \in inserted :
      LET c == Search(Cur, p[1]) IN c.err = NoErr /\ Get(Cur, c) = p

\* C2: a cursor obtained by Search(m) for the smallest inserted key m and
\* advanced with Forward yields exactly the inserted pairs, each once, in
\* ascending key order; Forward returns true exactly while a further pair
\* exists, and the cursor is never at idx >= slotCount of its leaf.
C2_ScanYieldsAllInOrder ==
  (NoError /\ inserted # {}) =>
    LET c == Search(Cur, Min(InsertedKeys))
        cs == ScanPositions(Cur, c, Cardinality(inserted) + 2)
        want == SortedPairs(inserted)
    IN /\ c.err = NoErr
       /\ Len(cs) = Len(want)
       /\ \A i \in 1..Len(cs) :
            /\ cs[i].idx < cs[i].node.slotsTaken
            /\ i <= Len(want) => Get(Cur, cs[i]) = want[i]

\* C3: after every completed Insert the tree is perfectly balanced: every
\* path from the root to a leaf has the same length (so the children of a
\* branch are all leaves or all branches).
C3_Balanced == NoError => Balanced

\* C4: after every completed Insert, for every branch N: the keys below
\* entry i's child are <= entry i's key and > entry (i-1)'s key, N.next is a
\* valid page id, and the keys below N.next are greater than N's last key.
C4_BranchSeparators == NoError => \A b \in Branches : BranchOrdered(b)

\* C5: after every completed Insert the keys of every leaf and of every
\* branch node are in non-decreasing order by slot index.
C5_NodesSorted == \A n \in DOMAIN pg : SortedNode(n)

\* a state reached by an Insert that split a leaf below a full root (new
\* root, right sibling of the old root and new leaf allocated) and that left
\* a leaf and a branch with at least two keys
C5_Witness ==
  /\ last.op = "Insert"
  /\ last.alloc >= 3
  /\ \E l \in Leaves : pg[l].slotsTaken >= 2
  /\ \E b \in Branches : pg[b].slotsTaken >= 2

\* C6: after every completed Insert the leaves form a consistent doubly
\* linked list: next from the leftmost leaf visits every leaf once with
\* non-decreasing keys, the ends have prev/next invalid, and every leaf with
\* a valid prev is the next of the leaf at prev.
C6_LeafChain == NoError => ChainConsistent

\* C7: when an Insert splits the full root, afterwards rootID is a newly
\* allocated page id, the new root has one entry (mid, oldRootID) where mid is
\* the key of the old root's middle entry, and its next is the right sibling
\* made by splitting the old root (the leaf separator went below).
C7_RootPromotion ==
  [][rootID' # rootID =>
       /\ rootID' \notin DOMAIN pg
       /\ rootID' = nEntries
       /\ root'.page = rootID'
       /\ root'.slotsTaken = 1
       /\ pg'[rootID'].ents[1] =
            <<pg[rootID].ents[(BranchNodeCap \div 2) + 1][1], rootID>>
       /\ root'.next = nEntries + 1
       /\ ~pg'[nEntries + 1].isLeaf]_vars

\* ------------------------------------------------------------------------
\* Concurrent specification: goroutines call Insert and Search/Close on one
\* tree. A step is what a goroutine does between two points where another
\* goroutine can see or change what it reads: the read of tree.root.page,
\* the acquisition of that page's lock, the evaluation of the deferred
\* receiver, the body, the release. The body runs as one step: the
\* behaviours of this specification are the executions in which the bodies
\* of the calls do not overlap in time, whoever holds which lock.
\* ------------------------------------------------------------------------
\* the goroutines that call the tree
Procs == {"p1", "p2"}

\* calls each goroutine makes
MaxCalls == 2

\* the tree the goroutines start on: ascending Inserts that fill the root
\* branch and the rightmost leaf
ConcSeedLen == 8

\* keys the goroutines insert: one for the initial left leaf, the others
\* for the full rightmost leaf
ConcKeys == {0, MaxKey + ConcSeedLen + 1, MaxKey + ConcSeedLen + 2}

SearchKeys == {MaxKey + 1}

\* a nil *Page
NoPage == "nil"

NoCursor == [root |-> NoPage, idx |-> 0, err |-> NoErr]

IdleProc ==
  [pc |-> "idle", lk |-> NoPage, unl |-> NoPage, key |-> 0, cur |-> NoCursor,
   calls |-> 0]

\* sync.RWMutex of page p, m = [w: pages write-locked, r: page -> readers]
Readers(m, p) == IF p \in DOMAIN m.r THEN m.r[p] ELSE 0

CanLock(m, p) == p \notin m.w /\ Readers(m, p) = 0

CanRLock(m, p) == p \notin m.w

Lock(m, p) == [m EXCEPT !.w = @ \cup {p}]

RLock(m, p) ==
  [m EXCEPT !.r = [q \in DOMAIN m.r \cup {p} |-> Readers(m, q) + 
                                                 (IF q = p THEN 1 ELSE 0)]]

\* Unlock and RUnlock of a mutex that is not locked that way are fatal
\* errors of the runtime
Unlock(m, p) ==
  IF p \in m.w THEN [m |-> [m EXCEPT !.w = @ \ {p}], fatal |-> NoErr]
  ELSE [m |-> m, fatal |-> "fatal error: sync: Unlock of unlocked RWMutex"]

RUnlock(m, p) ==
  IF Readers(m, p) > 1 THEN [m |-> [m EXCEPT !.r[p] = @ - 1], fatal |-> NoErr]
  ELSE IF Readers(m, p) = 1
  THEN [m |-> [m EXCEPT !.r = [q \in DOMAIN m.r \ {p} |-> m.r[q]]],
        fatal |-> NoErr]
  ELSE [m |-> m, fatal |-> "fatal error: sync: RUnlock of unlocked RWMutex"]

ConcInit ==
  /\ TreeInit(SeedPairs(ConcSeedLen))
  /\ procs = [p \in Procs |-> IdleProc]
  /\ rw = [w |-> {}, r |-> <<>>]
  /\ fatal = NoErr
  /\ PagerUnused

\* the keys of the Insert calls that have not returned
InFlight == {procs[p].key : p \in {q \in Procs : procs[q].pc \in
               {"ins_lock", "ins_defer", "ins_body", "ins_return"}}}

Returned(pr) == [IdleProc EXCEPT !.calls = pr.calls + 1]

\* Insert is called: tree.root.page, the receiver of Lock, is evaluated
InsertCall(p) ==
  /\ fatal = NoErr
  /\ procs[p].pc = "idle"
  /\ procs[p].calls < MaxCalls
  /\ \E k \in ConcKeys \ (InsertedKeys \cup InFlight) :
       procs' = [procs EXCEPT ![p].pc = "ins_lock", ![p].lk = root.page,
                              ![p].key = k]
  /\ UNCHANGED <<treeVars, rw, fatal, pagerVars>>

\* Lock() returns
InsLock(p) ==
  /\ fatal = NoErr
  /\ procs[p].pc = "ins_lock"
  /\ CanLock(rw, procs[p].lk)
  /\ rw' = Lock(rw, procs[p].lk)
  /\ procs' = [procs EXCEPT ![p].pc = "ins_defer"]
  /\ UNCHANGED <<treeVars, fatal, pagerVars>>

\* defer tree.root.page.Unlock(): the receiver is evaluated now
InsDefer(p) ==
  /\ fatal = NoErr
  /\ procs[p].pc = "ins_defer"
  /\ procs' = [procs EXCEPT ![p].pc = "ins_body", ![p].unl = root.page]
  /\ UNCHANGED <<treeVars, rw, fatal, pagerVars>>

\* the descent and the page mutations
InsBody(p) ==
  /\ fatal = NoErr
  /\ procs[p].pc = "ins_body"
  /\ \E v \in ValuesOf(procs[p].key) : DoInsert(procs[p].key, v)
  /\ procs' = [procs EXCEPT ![p].pc = "ins_return"]
  /\ UNCHANGED <<rw, fatal, pagerVars>>

\* the deferred Unlock runs and Insert returns
InsReturn(p) ==
  /\ fatal = NoErr
  /\ procs[p].pc = "ins_return"
  /\ rw' = Unlock(rw, procs[p].unl).m
  /\ fatal' = Unlock(rw, procs[p].unl).fatal
  /\ procs' = [procs EXCEPT ![p] = Returned(procs[p])]
  /\ UNCHANGED <<treeVars, pagerVars>>

\* Search is called: tree.root.page, the receiver of RLock, is evaluated
SearchCall(p) ==
  /\ fatal = NoErr
  /\ procs[p].pc = "idle"
  /\ procs[p].calls < MaxCalls
  /\ \E k \in SearchKeys :
       procs' = [procs EXCEPT ![p].pc = "se_rlock", ![p].lk = root.page,
                              ![p].key = k]
  /\ UNCHANGED <<treeVars, rw, fatal, pagerVars>>

\* RLock() returns
SeRLock(p) ==
  /\ fatal = NoErr
  /\ procs[p].pc = "se_rlock"
  /\ CanRLock(rw, procs[p].lk)
  /\ rw' = RLock(rw, procs[p].lk)
  /\ procs' = [procs EXCEPT ![p].pc = "se_descend"]
  /\ UNCHANGED <<treeVars, fatal, pagerVars>>

\* node := tree.root and the descent to the leaf; a FetchPage error unlocks
\* tree.root.page and returns a cursor that holds the error and no root
SeDescend(p) ==
  /\ fatal = NoErr
  /\ procs[p].pc = "se_descend"
  /\ LET c == Search(Cur, procs[p].key) IN
     IF c.err # NoErr
     THEN /\ rw' = RUnlock(rw, root.page).m
          /\ fatal' = RUnlock(rw, root.page).fatal
          /\ procs' = [procs EXCEPT ![p] = Returned(procs[p])]
     ELSE /\ procs' = [procs EXCEPT ![p].pc = "se_return",
                                    ![p].cur = [root |-> NoPage, idx |-> c.idx,
                                                node |-> c.node, err |-> NoErr]]
          /\ UNCHANGED <<rw, fatal>>
  /\ UNCHANGED <<treeVars, pagerVars>>

\* return Cursor{root: tree.root.page, ...}
SeReturn(p) ==
  /\ fatal = NoErr
  /\ procs[p].pc = "se_return"
  /\ procs' = [procs EXCEPT ![p].pc = "cursor", ![p].cur.root = root.page]
  /\ UNCHANGED <<treeVars, rw, fatal, pagerVars>>

\* Cursor.Close
Close(p) ==
  /\ fatal = NoErr
  /\ procs[p].pc = "cursor"
  /\ rw' = RUnlock(rw, procs[p].cur.root).m
  /\ fatal' = RUnlock(rw, procs[p].cur.root).fatal
  /\ procs' = [procs EXCEPT ![p] = Returned(procs[p])]
  /\ UNCHANGED <<treeVars, pagerVars>>

ConcNext ==
  \E p \in Procs :
    \/ InsertCall(p)
    \/ InsLock(p)
    \/ InsDefer(p)
    \/ InsBody(p)
    \/ InsReturn(p)
    \/ SearchCall(p)
    \/ SeRLock(p)
    \/ SeDescend(p)
    \/ SeReturn(p)
    \/ Close(p)

SpecConc == ConcInit /\ [][ConcNext]_vars

\* C8: in every interleaving of concurrent Insert calls at most one Insert
\* is executing its descent and page mutations at any time, also when an
\* Insert promotes a new root while another waits for the lock of the
\* previous root page.
C8_InsertsExclusive ==
  Cardinality({p \in Procs : procs[p].pc = "ins_body"}) <= 1

\* C9: from the return of Search without error until Close, the cursor
\* holds the read lock of the page that is the tree's current root, so that
\* no Insert is past its Lock during the cursor's lifetime, also when a root
\* promotion completes while the Search waits for the lock.
C9_CursorHoldsRootLock ==
  \A p \in Procs :
    procs[p].pc = "cursor" =>
      /\ procs[p].lk = root.page
      /\ procs[p].cur.root = procs[p].lk
      /\ Readers(rw, root.page) >= 1
      /\ \A q \in Procs : procs[q].pc \notin {"ins_defer", "ins_body"}

\* ------------------------------------------------------------------------
\* Pager specification: goroutines call FetchPage and Unpin on one pager
\* with an LRU cache of CacheCap pages. A Page object is its index in
\* pages; an LRUNode is its index in cache.nodes (0 is nil for both).
\* ------------------------------------------------------------------------
\* the goroutines that call the pager
Threads == {"t1", "t2"}

\* FetchPage calls each goroutine makes
MaxFetches == 2

\* maxPages of NewPager
CacheCap == 2

\* len(pager.pageLocks)
NumPageLocks == 128

\* the entries of the allocation index
PagerEntries == 129

\* the ids fetched: 0 and 128 share a page lock, 129 is not allocated
FetchIds == {0, 1, NumPageLocks, PagerEntries}

NilNode == 0

NilObj == 0

RECURSIVE XorByte(_, _)
XorByte(a, b) ==
  IF a = 0 /\ b = 0 THEN 0
  ELSE ((a + b) % 2) + 2 * XorByte(a \div 2, b \div 2)

\* the low byte of PageID.Hash(): the low byte of a product modulo 2^32 is
\* the low byte of the product of the low bytes (0xc5 of the offset basis,
\* 0x93 of the prime), and each ^= has an operand below 256
HashLowByte(id) ==
  Then(XorByte((197 * 147) % 256, id % 256), LAMBDA h1 :
  Then(XorByte((h1 * 147) % 256, (id \div 256) % 256), LAMBDA h2 :
  XorByte((h2 * 147) % 256, (id \div 65536) % 256)))

\* idx of lockPageID and unlockPageID
lockIndex(id) == HashLowByte(id) % NumPageLocks

IsPinned(ps, o) == ps[o].pinCount # 0

\* a Pin that counts twice
PinTwice(ps, o) == [ps EXCEPT ![o].pinCount = @ + 2]

Pin(ps, o) == [ps EXCEPT ![o].pinCount = @ + 1]

\* Page.Unpin: the count after atomic.AddInt32(&page.pinCount, -1); the
\* caller panics when it is negative
UnpinPage(ps, o) == [ps EXCEPT ![o].pinCount = @ - 1]

\* a failed flush that leaves the pin of FetchPage on the page
KeepPin(ps, o) == ps

\* FetchPage after SyncPage of the victim failed: page.Unpin() before
\* return nil, err
FlushFailed(ps, o) == UnpinPage(ps, o)

ErrPageNotAllocated == "page not allocated"

\* the error of a failed storage.WriteAt
ErrWrite == "write failed"

NewLRUCache(capacity) ==
  [nodes |-> <<>>, values |-> [id \in {} |-> NilNode],
   recentlyUsed |-> NilNode, leastUsed |-> NilNode, capacity |-> capacity]

detachNode(c, node) ==
  Then(IF node = c.leastUsed
       THEN Then([c EXCEPT !.leastUsed = c.nodes[c.leastUsed].next],
                 LAMBDA d :
                 IF d.leastUsed # NilNode
                 THEN [d EXCEPT !.nodes[d.leastUsed].prev = NilNode]
                 ELSE d)
       ELSE c, LAMBDA c1 :
  Then(IF node = c1.recentlyUsed
       THEN [c1 EXCEPT !.recentlyUsed = c1.nodes[c1.recentlyUsed].prev]
       ELSE c1, LAMBDA c2 :
  Then(IF c2.nodes[node].next # NilNode
       THEN [c2 EXCEPT !.nodes[c2.nodes[node].next].prev = c2.nodes[node].prev]
       ELSE c2, LAMBDA c3 :
  IF c3.nodes[node].prev # NilNode
  THEN [c3 EXCEPT !.nodes[c3.nodes[node].prev].next = c3.nodes[node].next]
  ELSE c3)))

markUsed(c, node) ==
  IF node = c.recentlyUsed THEN c
  ELSE IF c.recentlyUsed = NilNode
  THEN [c EXCEPT !.recentlyUsed = node, !.leastUsed = node]
  ELSE Then(detachNode(c, node), LAMBDA d :
       Then([d EXCEPT !.nodes[node].next = NilNode,
                      !.nodes[node].prev = d.recentlyUsed], LAMBDA e :
       [e EXCEPT !.nodes[e.recentlyUsed].next = node, !.recentlyUsed = node]))

\* a Get that marks the entry used and does not pin its page
LRUGetNoPin(c, ps, id) ==
  IF id \in DOMAIN c.values
  THEN [cache |-> markUsed(c, c.values[id]), pages |-> ps,
        page |-> c.nodes[c.values[id]].page]
  ELSE [cache |-> c, pages |-> ps, page |-> NilObj]

\* LRUCache.Get under cache.m: the cache, the pages and the page returned
LRUGet(c, ps, id) ==
  IF id \in DOMAIN c.values
  THEN Then(c.values[id], LAMBDA node :
       [cache |-> markUsed(c, node), pages |-> Pin(ps, c.nodes[node].page),
        page |-> c.nodes[node].page])
  ELSE [cache |-> c, pages |-> ps, page |-> NilObj]

\* the first node from n along next whose page is not pinned, and the number
\* of nodes passed over
RECURSIVE SkipPinned(_, _, _, _)
SkipPinned(c, ps, n, passed) ==
  IF n # NilNode /\ IsPinned(ps, c.nodes[n].page)
  THEN SkipPinned(c, ps, c.nodes[n].next, passed + 1)
  ELSE [node |-> n, passed |-> passed]

\* a victim choice that takes the least recently used node, pinned or not
VictimLeastUsed(c, ps) == [node |-> c.leastUsed, passed |-> 0]

\* a victim choice that takes the most recently used node
VictimMostUsed(c, ps) == [node |-> c.recentlyUsed, passed |-> 0]

\* node = cache.leastUsed; for node != nil && node.page.IsPinned() ...
Victim(c, ps) == SkipPinned(c, ps, c.leastUsed, 0)

\* the node Put takes for the new entry, what it evicts and whether it
\* panics
PutNode(c, ps, id) ==
  IF id \in DOMAIN c.values
  THEN Then(c.values[id], LAMBDA node :
       [cache |-> c, node |-> node, evictedID |-> c.nodes[node].id,
        evictedPage |-> c.nodes[node].page, passed |-> 0,
        panic |-> IF IsPinned(ps, c.nodes[node].page)
                  THEN "Attempt to replace a pinned page" ELSE NoErr])
  ELSE IF Cardinality(DOMAIN c.values) >= c.capacity
  THEN Then(Victim(c, ps), LAMBDA v :
       IF v.node = NilNode
       THEN [cache |-> c, node |-> NilNode, evictedID |-> InvalidPageID,
             evictedPage |-> NilObj, passed |-> v.passed,
             panic |-> "All cache pages are pinned"]
       ELSE [cache |-> [c EXCEPT !.values =
                          [k \in DOMAIN c.values \ {c.nodes[v.node].id} |->
                             c.values[k]]],
             node |-> v.node, evictedID |-> c.nodes[v.node].id,
             evictedPage |-> c.nodes[v.node].page, passed |-> v.passed,
             panic |-> NoErr])
  ELSE [cache |-> [c EXCEPT !.nodes =
                     Append(@, [id |-> 0, page |-> NilObj, next |-> NilNode,
                                prev |-> NilNode])],
        node |-> Len(c.nodes) + 1, evictedID |-> InvalidPageID,
        evictedPage |-> NilObj, passed |-> 0, panic |-> NoErr]

\* LRUCache.Put under cache.m
LRUPut(c, ps, id, page) ==
  Then(PutNode(c, ps, id), LAMBDA r :
  IF r.panic # NoErr THEN r
  ELSE Then([r.cache EXCEPT
               !.nodes[r.node].id = id,
               !.nodes[r.node].page = page,
               !.values = [k \in DOMAIN r.cache.values \cup {id} |->
                             IF k = id THEN r.node ELSE r.cache.values[k]]],
            LAMBDA c1 : [r EXCEPT !.cache = markUsed(c1, r.node)]))

IdleThread ==
  [pc |-> "idle", id |-> InvalidPageID, page |-> NilObj,
   evictedID |-> InvalidPageID, evictedPage |-> NilObj, held |-> {},
   fetches |-> 0, err |-> NoErr]

\* FetchPage returns (page, err) to its caller, page NilObj with an error
FetchReturned(th, page, err) ==
  [IdleThread EXCEPT !.held = th.held \cup ({page} \ {NilObj}),
                     !.fetches = th.fetches + 1,
                     !.err = err]

PagerInit ==
  /\ pg = <<>>
  /\ nEntries = PagerEntries
  /\ root = NewView(FALSE, InvalidPageID)
  /\ rootID = InvalidPageID
  /\ inserted = {}
  /\ last = [op |-> "NewPager", err |-> NoErr, alloc |-> 0]
  /\ ConcUnused
  /\ fatal = NoErr
  /\ cache = NewLRUCache(CacheCap)
  /\ pages = <<>>
  /\ pageLocks = {}
  /\ threads = [t \in Threads |-> IdleThread]
  /\ evictions = {}
  /\ recency = <<>>
  /\ DiskUnused

\* FetchPage(id) is called by a goroutine that holds no page of that id
FetchCall(t) ==
  /\ fatal = NoErr
  /\ threads[t].pc = "idle"
  /\ threads[t].fetches < MaxFetches
  /\ \E id \in FetchIds \ {pages[o].id : o \in threads[t].held} :
       threads' = [threads EXCEPT ![t].pc = "fp_lock", ![t].id = id]
  /\ UNCHANGED <<treeVars, concVars, lruVars, diskVars, fatal, cache, pages, pageLocks,
                 evictions>>

\* pager.lockPageID(id) returns
FpLock(t) ==
  /\ fatal = NoErr
  /\ threads[t].pc = "fp_lock"
  /\ lockIndex(threads[t].id) \notin pageLocks
  /\ pageLocks' = pageLocks \cup {lockIndex(threads[t].id)}
  /\ threads' = [threads EXCEPT ![t].pc = "fp_get"]
  /\ UNCHANGED <<treeVars, concVars, lruVars, diskVars, fatal, cache, pages, evictions>>

\* page := pager.cache.Get(id); on a hit unlockPageID and return
FpGet(t) ==
  /\ fatal = NoErr
  /\ threads[t].pc = "fp_get"
  /\ LET g == LRUGet(cache, pages, threads[t].id) IN
     /\ cache' = g.cache
     /\ pages' = g.pages
     /\ IF g.page # NilObj
        THEN /\ pageLocks' = pageLocks \ {lockIndex(threads[t].id)}
             /\ threads' = [threads EXCEPT
                              ![t] = FetchReturned(threads[t], g.page, NoErr)]
        ELSE /\ pageLocks' = pageLocks
             /\ threads' = [threads EXCEPT ![t].pc = "fp_put"]
  /\ UNCHANGED <<treeVars, concVars, lruVars, diskVars, fatal, evictions>>

\* readPage, page.Pin(), cache.Put, unlockPageID
FpPut(t) ==
  /\ fatal = NoErr
  /\ threads[t].pc = "fp_put"
  /\ LET id == threads[t].id
         page == Len(pages) + 1
         read == Pin(Append(pages, [id |-> id, pinCount |-> 0,
                                    dirty |-> FALSE]), page)
         put == LRUPut(cache, read, id, page)
     IN
     IF GetOffset(nEntries, id) = -1
     THEN \* readPage: ErrPageNotAllocated
          /\ pageLocks' = pageLocks \ {lockIndex(id)}
          /\ threads' = [threads EXCEPT
                           ![t] = FetchReturned(threads[t], NilObj,
                                                ErrPageNotAllocated)]
          /\ UNCHANGED <<cache, pages, evictions, fatal>>
     ELSE IF put.panic # NoErr
     THEN /\ fatal' = put.panic
          /\ pages' = read
          /\ UNCHANGED <<cache, pageLocks, threads, evictions>>
     ELSE /\ cache' = put.cache
          /\ pages' = read
          /\ pageLocks' = pageLocks \ {lockIndex(id)}
          /\ fatal' = fatal
          /\ IF put.evictedID # InvalidPageID
             THEN /\ evictions' = evictions \cup
                        {[page |-> put.evictedPage,
                          pinCount |-> read[put.evictedPage].pinCount,
                          passed |-> put.passed]}
                  /\ threads' = [threads EXCEPT
                                   ![t].pc = "fp_sync", ![t].page = page,
                                   ![t].evictedID = put.evictedID,
                                   ![t].evictedPage = put.evictedPage]
             ELSE /\ evictions' = evictions
                  /\ threads' = [threads EXCEPT
                                   ![t] = FetchReturned(threads[t], page,
                                                        NoErr)]
  /\ UNCHANGED <<treeVars, concVars, lruVars, diskVars>>

\* evictedPage.RLock(); pager.SyncPage(evictedID, evictedPage);
\* evictedPage.RUnlock(): no goroutine of this specification write-locks a
\* page, so RLock does not wait; SyncPage of a dirty page waits for the page
\* lock of evictedID, and its write succeeds (ok) or fails
FpSync(t) ==
  /\ fatal = NoErr
  /\ threads[t].pc = "fp_sync"
  /\ LET v == threads[t].evictedPage IN
     IF ~pages[v].dirty
     THEN /\ threads' = [threads EXCEPT
                           ![t] = FetchReturned(threads[t], threads[t].page,
                                                NoErr)]
          /\ UNCHANGED <<pages, fatal>>
     ELSE /\ lockIndex(threads[t].evictedID) \notin pageLocks
          /\ \E ok \in BOOLEAN :
               IF ok
               THEN /\ pages' = [pages EXCEPT ![v].dirty = FALSE]
                    /\ threads' = [threads EXCEPT
                                     ![t] = FetchReturned(threads[t],
                                                          threads[t].page,
                                                          NoErr)]
                    /\ fatal' = fatal
               ELSE \* page.Unpin(); return nil, err
                    /\ pages' = FlushFailed(pages, threads[t].page)
                    /\ threads' = [threads EXCEPT
                                     ![t] = FetchReturned(threads[t], NilObj,
                                                          ErrWrite)]
                    /\ fatal' = IF pages[threads[t].page].pinCount - 1 < 0
                                THEN "Unpin() called on page that is not pinned"
                                ELSE fatal
  /\ UNCHANGED <<treeVars, concVars, lruVars, diskVars, cache, pageLocks, evictions>>

\* the caller of FetchPage marks a page it holds dirty
MarkDirty(t) ==
  /\ fatal = NoErr
  /\ threads[t].pc = "idle"
  /\ \E o \in threads[t].held :
       /\ ~pages[o].dirty
       /\ pages' = [pages EXCEPT ![o].dirty = TRUE]
  /\ UNCHANGED <<treeVars, concVars, lruVars, diskVars, fatal, cache, pageLocks, threads,
                 evictions>>

\* the caller of FetchPage unpins a page it holds
Unpin(t) ==
  /\ fatal = NoErr
  /\ threads[t].pc = "idle"
  /\ \E o \in threads[t].held :
       /\ pages' = UnpinPage(pages, o)
       /\ threads' = [threads EXCEPT ![t].held = @ \ {o}]
       /\ fatal' = IF pages[o].pinCount - 1 < 0
                   THEN "Unpin() called on page that is not pinned"
                   ELSE fatal
  /\ UNCHANGED <<treeVars, concVars, lruVars, diskVars, cache, pageLocks, evictions>>

PagerNext ==
  \E t \in Threads :
    \/ FetchCall(t)
    \/ FpLock(t)
    \/ FpGet(t)
    \/ FpPut(t)
    \/ FpSync(t)
    \/ MarkDirty(t)
    \/ Unpin(t)

SpecPager == PagerInit /\ [][PagerNext]_vars

\* the Page objects the cache holds
CachedPages == {cache.nodes[cache.values[id]].page : id \in DOMAIN cache.values}

\* C10: in every interleaving of concurrent FetchPage and Unpin calls, a
\* page chosen by Put as the eviction victim had pin count zero when it was
\* chosen, and afterwards it is not in the cache and is not pinned again.
C10_NoPinnedEviction ==
  \A e \in evictions :
    /\ e.pinCount = 0
    /\ pages[e.page].pinCount = 0
    /\ e.page \notin CachedPages

\* Put passed over a pinned least recently used page and evicted another
\* one, while a goroutine holds a pinned page and another is inside
\* FetchPage
C10_Witness ==
  /\ \E e \in evictions : e.passed > 0
  /\ \E t \in Threads : threads[t].held # {}
  /\ \E t \in Threads : threads[t].pc # "idle"

\* the goroutines that hold a pin of Page object o: those FetchPage returned
\* o to and that have not unpinned it, and those inside FetchPage past its
\* page.Pin()
PinHolders(o) ==
  {t \in Threads : o \in threads[t].held} \cup
  {t \in Threads : threads[t].pc = "fp_sync" /\ threads[t].page = o}

\* C11: every FetchPage that returned a page added exactly one to the pin
\* count of that page, so the count of a page is the number of pins taken
\* and not yet returned by Unpin; and the page FetchPage returns is in the
\* cache under its id when FetchPage returns and for as long as it is held.
C11_FetchPinsOnce ==
  \A o \in DOMAIN pages :
    /\ fatal = NoErr => pages[o].pinCount = Cardinality(PinHolders(o))
    /\ PinHolders(o) # {} =>
         /\ pages[o].id \in DOMAIN cache.values
         /\ cache.nodes[cache.values[pages[o].id]].page = o

\* both goroutines fetched the same page, one by a miss and one by a hit,
\* after an eviction took place
C11_Witness ==
  /\ \E o \in DOMAIN pages :
       /\ \A t \in Threads : o \in threads[t].held
       /\ pages[o].pinCount = 2
  /\ evictions # {}

\* FetchPage of goroutine t returns the error of the flush of the victim
FlushFails(t) ==
  /\ threads[t].pc = "fp_sync"
  /\ threads'[t].pc = "idle"
  /\ threads'[t].err = ErrWrite

\* C12 as stated: when the flush of the dirty victim fails, FetchPage
\* returns the error and leaves its pin on the page it read.
C12_FlushErrorKeepsPin ==
  [][\A t \in Threads :
       FlushFails(t) =>
         pages'[threads[t].page].pinCount = pages[threads[t].page].pinCount]_vars

\* C12 amended: when the flush of the dirty victim fails, FetchPage returns
\* the error and no page, has taken its own pin off the page it read, and
\* leaves that page in the cache under the id asked for.
C12_FlushErrorUnpins ==
  [][\A t \in Threads :
       FlushFails(t) =>
         /\ pages'[threads[t].page].pinCount =
              pages[threads[t].page].pinCount - 1
         /\ threads'[t].held = threads[t].held
         /\ cache' = cache
         /\ cache.nodes[cache.values[threads[t].id]].page = threads[t].page
         /\ pages'[threads[t].evictedPage].dirty
         /\ threads[t].evictedPage \notin CachedPages]_vars

\* a FetchPage returned the write error and the page it read is in the
\* cache with no pin
C12_Witness ==
  \E t \in Threads :
    /\ threads[t].err = ErrWrite
    /\ \E o \in CachedPages : pages[o].pinCount = 0 /\ ~pages[o].dirty

\* every entry of the cache is taken and every cached page is pinned
AllPinned ==
  /\ Cardinality(DOMAIN cache.values) = cache.capacity
  /\ \A o \in CachedPages : IsPinned(pages, o)

\* goroutine t is inside FetchPage(id) after the miss of cache.Get, and
\* readPage of id succeeds
MissedAllocated(t) ==
  /\ threads[t].pc = "fp_put"
  /\ threads[t].id < nEntries
  /\ threads[t].id \notin DOMAIN cache.values

\* C18: when the cache holds capacity entries and every cached page is
\* pinned, the cache.Put of a FetchPage of an allocated id that is not
\* cached evicts nothing and FetchPage does not return: the process aborts
\* with the panic "All cache pages are pinned".
C18_AllPinnedPanics ==
  [][\A t \in Threads :
       (/\ AllPinned
        /\ MissedAllocated(t)
        /\ Len(pages') > Len(pages)
        /\ pages'[Len(pages')].id = threads[t].id)
       => /\ fatal' = "All cache pages are pinned"
          /\ cache' = cache
          /\ evictions' = evictions
          /\ threads'[t].pc = "fp_put"
          /\ \A o \in DOMAIN pages : pages'[o] = pages[o]]_vars

\* the process aborted in a FetchPage while the cache was full of pinned
\* pages held by the goroutines
C18_Witness ==
  /\ fatal = "All cache pages are pinned"
  /\ AllPinned
  /\ \E t \in Threads : MissedAllocated(t)
  /\ \A id \in DOMAIN cache.values : id < nEntries

\* ------------------------------------------------------------------
\* The LRU cache called directly: Get and Put in any order, on pages whose
\* pins the callers take and release

LruCap == 3

LruIds == 1..4

MaxLruCalls == 5

MaxPins == 2

\* the ids of the list from node n along next, at most k of them
RECURSIVE WalkNext(_, _, _)
WalkNext(c, n, k) ==
  IF n = NilNode \/ k = 0 THEN <<>>
  ELSE <<c.nodes[n].id>> \o WalkNext(c, c.nodes[n].next, k - 1)

\* the ids of the list from node n along prev, at most k of them: the order
\* in which ForEach visits them
RECURSIVE WalkPrev(_, _, _)
WalkPrev(c, n, k) ==
  IF n = NilNode \/ k = 0 THEN <<>>
  ELSE <<c.nodes[n].id>> \o WalkPrev(c, c.nodes[n].prev, k - 1)

\* the list of the cache from leastUsed to recentlyUsed
ListOrder(c) == WalkNext(c, c.leastUsed, Len(c.nodes) + 1)

\* the list of the cache from recentlyUsed to leastUsed
BackOrder(c) == WalkPrev(c, c.recentlyUsed, Len(c.nodes) + 1)

Reverse(seq) == [i \in 1..Len(seq) |-> seq[Len(seq) + 1 - i]]

Without(seq, id) == SelectSeq(seq, LAMBDA x : x # id)

\* the Page object the cache holds under id
PageOf(c, id) == c.nodes[c.values[id]].page

\* the id a Put of an absent id on a full cache has to evict: the least
\* recently used one whose page is not pinned; InvalidPageID when all are
LruVictim(order, c, ps) ==
  LET free == {i \in 1..Len(order) : ~IsPinned(ps, PageOf(c, order[i]))} IN
  IF free = {} THEN InvalidPageID
  ELSE order[CHOOSE i \in free : \A j \in free : i <= j]

LruInit ==
  /\ pg = <<>>
  /\ nEntries = 0
  /\ root = NewView(FALSE, InvalidPageID)
  /\ rootID = InvalidPageID
  /\ inserted = {}
  /\ last = [op |-> "NewLRUCache", id |-> InvalidPageID, page |-> NilObj,
             evictedID |-> InvalidPageID, evictedPage |-> NilObj, n |-> 0]
  /\ ConcUnused
  /\ fatal = NoErr
  /\ cache = NewLRUCache(LruCap)
  /\ pages = <<>>
  /\ pageLocks = {}
  /\ threads = <<>>
  /\ evictions = {}
  /\ recency = <<>>
  /\ DiskUnused

\* cache.Get(id)
CacheGet(id) ==
  /\ fatal = NoErr
  /\ last.n < MaxLruCalls
  /\ id \in DOMAIN cache.values => pages[PageOf(cache, id)].pinCount < MaxPins
  /\ LET g == LRUGet(cache, pages, id) IN
     /\ cache' = g.cache
     /\ pages' = g.pages
     /\ last' = [op |-> "Get", id |-> id, page |-> g.page,
                 evictedID |-> InvalidPageID, evictedPage |-> NilObj,
                 n |-> last.n + 1]
     /\ recency' = IF id \in DOMAIN cache.values
                   THEN Without(recency, id) \o <<id>>
                   ELSE recency
  /\ UNCHANGED <<pg, nEntries, root, rootID, inserted, concVars, fatal,
                 pageLocks, threads, evictions, diskVars>>

\* cache.Put(id, page) of a new Page object, pinned by the caller (as
\* FetchPage does) or not
CachePut(id, pinned) ==
  /\ fatal = NoErr
  /\ last.n < MaxLruCalls
  /\ LET page == Len(pages) + 1
         made == Append(pages, [id |-> id, pinCount |-> IF pinned THEN 1 ELSE 0,
                                dirty |-> FALSE])
         put == LRUPut(cache, made, id, page)
     IN
     /\ pages' = made
     /\ last' = [op |-> "Put", id |-> id, page |-> page,
                 evictedID |-> put.evictedID, evictedPage |-> put.evictedPage,
                 n |-> last.n + 1]
     /\ IF put.panic # NoErr
        THEN /\ fatal' = put.panic
             /\ UNCHANGED <<cache, recency>>
        ELSE /\ fatal' = fatal
             /\ cache' = put.cache
             /\ recency' =
                  IF id \in DOMAIN cache.values
                  THEN Without(recency, id) \o <<id>>
                  ELSE IF Len(recency) >= LruCap
                  THEN Without(recency, LruVictim(recency, cache, pages))
                         \o <<id>>
                  ELSE recency \o <<id>>
  /\ UNCHANGED <<pg, nEntries, root, rootID, inserted, concVars, pageLocks,
                 threads, evictions, diskVars>>

\* page.Unpin() by the holder of a pin of a cached page
CacheUnpin(id) ==
  /\ fatal = NoErr
  /\ id \in DOMAIN cache.values
  /\ IsPinned(pages, PageOf(cache, id))
  /\ pages' = UnpinPage(pages, PageOf(cache, id))
  /\ last' = [last EXCEPT !.op = "Unpin", !.id = id]
  /\ UNCHANGED <<pg, nEntries, root, rootID, inserted, concVars, fatal, cache,
                 pageLocks, threads, evictions, recency, diskVars>>

LruNext ==
  \/ \E id \in LruIds : CacheGet(id)
  \/ \E id \in LruIds, pinned \in BOOLEAN : CachePut(id, pinned)
  \/ \E id \in LruIds : CacheUnpin(id)

SpecLRU == LruInit /\ [][LruNext]_vars

\* the list of the cache holds each cached id once, reads the same in both
\* directions, and is in the order of the past Get hits and Puts
ListIsRecency ==
  /\ ListOrder(cache) = recency
  /\ BackOrder(cache) = Reverse(recency)
  /\ {recency[i] : i \in 1..Len(recency)} = DOMAIN cache.values
  /\ Len(recency) = Cardinality(DOMAIN cache.values)
  /\ \A id \in DOMAIN cache.values : cache.nodes[cache.values[id]].id = id

\* a Put(id, page) of an id that was not cached returned
PutOfAbsent ==
  /\ last'.op = "Put"
  /\ fatal' = NoErr
  /\ last'.id \notin DOMAIN cache.values

\* what Put(id, page) leaves: id is cached with page, most recently used
PutLeaves ==
  /\ last'.id \in DOMAIN cache'.values
  /\ PageOf(cache', last'.id) = last'.page
  /\ cache'.nodes[cache'.recentlyUsed].id = last'.id
  /\ ListOrder(cache')[Len(ListOrder(cache'))] = last'.id
  /\ Cardinality(DOMAIN cache'.values) <= cache'.capacity

\* C19: in every sequence of Get and Put calls the list of the cache is the
\* recency order of the past Get hits and Puts; a Put of an absent id on a
\* full cache evicts exactly one entry, the least recently used one among
\* those whose page is not pinned, and returns its id and page; a Put of an
\* absent id on a cache that is not full evicts nothing and returns
\* (InvalidPageID, nil); after either Put the new id is the most recently
\* used entry, the other entries keep their order, and the cache holds at
\* most capacity entries.
C19_PutEvictsLRUUnpinned ==
  /\ []ListIsRecency
  /\ [][PutOfAbsent =>
          /\ PutLeaves
          /\ IF Cardinality(DOMAIN cache.values) >= cache.capacity
             THEN LET v == LruVictim(recency, cache, pages) IN
                  /\ v # InvalidPageID
                  /\ last'.evictedID = v
                  /\ last'.evictedPage = PageOf(cache, v)
                  /\ DOMAIN cache'.values =
                       (DOMAIN cache.values \ {v}) \cup {last'.id}
                  /\ \A k \in DOMAIN cache.values \ {v} :
                       PageOf(cache', k) = PageOf(cache, k)
                  /\ ListOrder(cache') =
                       Without(ListOrder(cache), v) \o <<last'.id>>
             ELSE /\ last'.evictedID = InvalidPageID
                  /\ last'.evictedPage = NilObj
                  /\ DOMAIN cache'.values =
                       DOMAIN cache.values \cup {last'.id}
                  /\ \A k \in DOMAIN cache.values :
                       PageOf(cache', k) = PageOf(cache, k)
                  /\ ListOrder(cache') = ListOrder(cache) \o <<last'.id>>]_vars

\* a Put on the full cache passed over the pinned least recently used entry
\* and evicted an entry from the middle of the list
C19_Witness ==
  /\ last.op = "Put"
  /\ fatal = NoErr
  /\ last.evictedID # InvalidPageID
  /\ last.evictedID # last.id
  /\ Len(recency) = LruCap
  /\ IsPinned(pages, PageOf(cache, recency[1]))
  /\ ~IsPinned(pages, PageOf(cache, recency[2]))

\* C20: Get(id) of a cached id returns the cached page, adds exactly one
\* to its pin count and makes id the most recently used entry, the other
\* entries keeping their order; Get(id) of an id that is not cached returns
\* nil and changes neither the cache, nor the recency order, nor a pin
\* count.
C20_GetPinsAndMarksUsed ==
  [][last'.op = "Get" =>
       IF last'.id \in DOMAIN cache.values
       THEN LET o == PageOf(cache, last'.id) IN
            /\ last'.page = o
            /\ pages' = [pages EXCEPT ![o].pinCount = @ + 1]
            /\ DOMAIN cache'.values = DOMAIN cache.values
            /\ \A k \in DOMAIN cache.values :
                 PageOf(cache', k) = PageOf(cache, k)
            /\ ListOrder(cache') =
                 Without(ListOrder(cache), last'.id) \o <<last'.id>>
            /\ BackOrder(cache') = Reverse(ListOrder(cache'))
            /\ recency' = ListOrder(cache')
            /\ cache'.nodes[cache'.recentlyUsed].id = last'.id
       ELSE /\ last'.page = NilObj
            /\ cache' = cache
            /\ pages' = pages
            /\ recency' = recency]_vars

\* a Get hit moved the least recently used of three entries to the most
\* recently used end
C20_Witness ==
  /\ last.op = "Get"
  /\ last.page # NilObj
  /\ Len(recency) = LruCap
  /\ recency[LruCap] = last.id
  /\ cache.nodes[cache.leastUsed].id # last.id
  /\ pages[last.page].pinCount = 2

\* ------------------------------------------------------------------
\* The LRU cache with Remove among its calls

\* LRUCache.Remove under cache.m: the node is detached from the list and
\* stays in values
LRURemove(c, id) ==
  IF id \notin DOMAIN c.values THEN [cache |-> c, page |-> NilObj]
  ELSE Then(c.values[id], LAMBDA node :
       [cache |-> detachNode(c, node), page |-> c.nodes[node].page])

\* cache.Remove(id)
CacheRemove(id) ==
  /\ fatal = NoErr
  /\ last.n < MaxLruCalls
  /\ LET r == LRURemove(cache, id) IN
     /\ cache' = r.cache
     /\ last' = [op |-> "Remove", id |-> id, page |-> r.page,
                 evictedID |-> InvalidPageID, evictedPage |-> NilObj,
                 n |-> last.n + 1]
     /\ recency' = Without(recency, id)
  /\ UNCHANGED <<pg, nEntries, root, rootID, inserted, concVars, fatal, pages,
                 pageLocks, threads, evictions, diskVars>>

RemoveNext ==
  \/ LruNext
  \/ \E id \in LruIds : CacheRemove(id)

SpecRemove == LruInit /\ [][RemoveNext]_vars

\* C21: after Remove(id) of a cached id returned the page, a Get(id)
\* returns nil, ForEach does not visit id, and a Put of another id evicts
\* nothing when fewer than capacity ids are left in the cache.
C21_RemoveDetaches ==
  (last.op = "Remove" /\ last.page # NilObj) =>
    /\ LRUGet(cache, pages, last.id).page = NilObj
    /\ \A i \in 1..Len(BackOrder(cache)) : BackOrder(cache)[i] # last.id
    /\ \A id \in LruIds \ {last.id} :
         (id \notin DOMAIN cache.values /\ Len(BackOrder(cache)) < LruCap)
           => PutNode(cache, pages, id).evictedID = InvalidPageID

\* ------------------------------------------------------------------
\* The pager on its storage, called by one goroutine: AllocatePage,
\* FetchPage, page writes and Unpin, SyncAll, FirstPage/NextPage, and
\* NewPager on the storage as a run of the program left it

MaxAlloc == 10

MaxFetchAlloc == 2

MaxObjs == 3

MaxVer == 1

DiskCacheCap == 1

DiskFetchIds == {0, 1}

\* the error of a failed storage.Truncate
ErrTruncate == "truncate failed"

\* the error of storage.ReadAt past the end of the storage
ErrRead == "EOF"

ErrNoFreePages == "no free pages"

ErrInvalidStorageSize == "storage size should be multiple of page size"

\* an Allocate that sets the bit and does not count the entry
AllocateNoCount(n, ix) ==
  IF n >= IndexMaxEntriesPerPage
  THEN [id |-> InvalidPageID, n |-> n, index |-> ix]
  ELSE [id |-> n, n |-> n,
        index |-> [bits |-> ix.bits \cup {n}, dirty |-> TRUE]]

\* AllocationIndex.Allocate on an index of n entries
Allocate(n, ix) ==
  IF n >= IndexMaxEntriesPerPage
  THEN [id |-> InvalidPageID, n |-> n, index |-> ix]
  ELSE [id |-> n, n |-> n + 1,
        index |-> [bits |-> ix.bits \cup {n}, dirty |-> TRUE]]

IsAllocated(n, ix, id) == id < n /\ id \in ix.bits

\* an ensureSize that believes the storage is long enough
ensureNothing(size, d, requiredSize, ok) ==
  [err |-> NoErr, storageSize |-> size, disk |-> d]

\* an ensureSize that calls Truncate whatever the current size is
ensureTruncate(size, d, requiredSize, ok) ==
  IF ~ok
  THEN [err |-> ErrTruncate, storageSize |-> size, disk |-> d]
  ELSE [err |-> NoErr, storageSize |-> requiredSize,
        disk |-> [d EXCEPT !.size = requiredSize]]

\* Pager.ensureSize; ok says whether storage.Truncate succeeds
ensureSize(size, d, requiredSize, ok) ==
  IF size >= requiredSize
  THEN [err |-> NoErr, storageSize |-> size, disk |-> d]
  ELSE IF ~ok
  THEN [err |-> ErrTruncate, storageSize |-> size, disk |-> d]
  ELSE [err |-> NoErr, storageSize |-> requiredSize,
        disk |-> [d EXCEPT !.size = requiredSize]]

\* a uint32 as its two 16 bit halves, high half first
Halves(id) == <<id \div 65536, id % 65536>>

\* uint32(id) + 1
Inc32(h) ==
  IF h[2] = 65535 THEN <<(h[1] + 1) % 65536, 0>> ELSE <<h[1], h[2] + 1>>

\* Pager.NextPage of the id with halves h: an id of 65536 or more is not
\* below NumEntries
NextPage(n, ix, h) ==
  Then(Inc32(h), LAMBDA next :
  IF next[1] = 0 /\ IsAllocated(n, ix, next[2]) THEN next[2]
  ELSE InvalidPageID)

\* a FirstPage that starts after id 0
FirstPageAfterZero(n, ix) == NextPage(n, ix, <<0, 0>>)

\* Pager.FirstPage: NextPage(PageID(^uint32(0)))
FirstPage(n, ix) == NextPage(n, ix, <<65535, 65535>>)

\* for id := FirstPage(); id != InvalidPageID; id = NextPage(id): the ids
\* the loop visits, from id on
RECURSIVE ScanFrom(_, _, _)
ScanFrom(n, ix, id) ==
  IF id = InvalidPageID THEN <<>>
  ELSE <<id>> \o ScanFrom(n, ix, NextPage(n, ix, Halves(id)))

\* the bytes storage.ReadAt reads at offset: zero where nothing was written
ReadAt(d, offset) == IF offset \in DOMAIN d.data THEN d.data[offset] ELSE 0

\* storage.WriteAt of a page at offset
WriteAt(d, offset, data) ==
  [d EXCEPT !.data = (offset :> data) @@ d.data,
            !.size = IF offset + PageSize > @ THEN offset + PageSize ELSE @]

\* AllocationIndex.SyncPages in state s = [index, pages, disk, writes, err];
\* the write of this call numbered failAt fails
SyncPages(s, n, failAt) ==
  IF ~s.index.dirty THEN s
  ELSE IF failAt = Len(s.writes) + 1
  THEN [s EXCEPT !.err = ErrWrite, !.index.dirty = FALSE,
                 !.writes = Append(@, -1)]
  ELSE [s EXCEPT !.disk.n = n, !.disk.bits = s.index.bits,
                 !.writes = Append(@, 0)]

\* a SyncPage that marks the page clean whether the write succeeded or not
SyncPageCleans(s, n, id, o, failAt) ==
  IF ~s.pages[o].dirty THEN s
  ELSE IF GetOffset(n, id) = -1
  THEN [s EXCEPT !.err = ErrPageNotAllocated, !.pages[o].dirty = FALSE]
  ELSE IF failAt = Len(s.writes) + 1
  THEN [s EXCEPT !.err = ErrWrite, !.pages[o].dirty = FALSE,
                 !.writes = Append(@, -1)]
  ELSE [s EXCEPT !.disk = WriteAt(@, GetOffset(n, id), s.pages[o].data),
                 !.pages[o].dirty = FALSE,
                 !.writes = Append(@, GetOffset(n, id))]

\* Pager.SyncPage(id, page) of Page object o
SyncPage(s, n, id, o, failAt) ==
  IF ~s.pages[o].dirty THEN s
  ELSE IF GetOffset(n, id) = -1 THEN [s EXCEPT !.err = ErrPageNotAllocated]
  ELSE IF failAt = Len(s.writes) + 1
  THEN [s EXCEPT !.err = ErrWrite, !.writes = Append(@, -1)]
  ELSE [s EXCEPT !.disk = WriteAt(@, GetOffset(n, id), s.pages[o].data),
                 !.pages[o].dirty = FALSE,
                 !.writes = Append(@, GetOffset(n, id))]

\* cache.ForEach of SyncAll over the nodes from node along prev: it stops
\* at the first error
RECURSIVE SyncEach(_, _, _, _, _)
SyncEach(s, n, c, node, failAt) ==
  IF node = NilNode \/ s.err # NoErr THEN s
  ELSE SyncEach(SyncPage(s, n, c.nodes[node].id, c.nodes[node].page, failAt),
                n, c, c.nodes[node].prev, failAt)

\* Pager.SyncAll
SyncAll(s, n, c, failAt) ==
  Then(SyncPages(s, n, failAt), LAMBDA m :
  IF m.err # NoErr THEN m ELSE SyncEach(m, n, c, c.recentlyUsed, failAt))

\* what a call leaves in last: the call, what it returned, the offsets it
\* wrote (-1 for a failed write), and whether it is a SyncAll that follows
\* a SyncAll that returned no error with no call in between
Called(op, id, err, writes, ids) ==
  [op |-> op, id |-> id, err |-> err, writes |-> writes, ids |-> ids,
   again |-> op = "SyncAll" /\ last.op = "SyncAll" /\ last.err = NoErr]

DiskInit ==
  /\ pg = <<>>
  /\ nEntries = 0
  /\ root = NewView(FALSE, InvalidPageID)
  /\ rootID = InvalidPageID
  /\ inserted = {}
  /\ last = [op |-> "NewPager", id |-> InvalidPageID, err |-> NoErr,
             writes |-> <<>>, ids |-> <<>>, again |-> FALSE]
  /\ ConcUnused
  /\ fatal = NoErr
  /\ cache = NewLRUCache(DiskCacheCap)
  /\ pages = <<>>
  /\ pageLocks = {}
  /\ threads = <<>>
  /\ evictions = {}
  /\ recency = <<>>
  /\ index = [bits |-> {}, dirty |-> FALSE]
  /\ storageSize = PageSize
  /\ disk = EmptyStorage
  /\ pgDirty = {}
  /\ pgPins = <<>>

diskFrame == <<pg, root, rootID, inserted, concVars, pageLocks, threads,
               evictions, recency, pgDirty, pgPins>>

\* Pager.AllocatePage on an index of fewer than bound entries; ok says
\* whether storage.Truncate succeeds
DiskAllocate(ok, bound) ==
  /\ fatal = NoErr
  /\ nEntries < bound
  /\ LET a == Allocate(nEntries, index) IN
     IF a.id = InvalidPageID
     THEN /\ last' = Called("AllocatePage", a.id, ErrNoFreePages, <<>>, <<>>)
          /\ UNCHANGED <<nEntries, index, storageSize, disk>>
     ELSE LET e == ensureSize(storageSize, disk,
                              GetOffset(a.n, a.id) + PageSize, ok) IN
          /\ nEntries' = a.n
          /\ index' = a.index
          /\ storageSize' = e.storageSize
          /\ disk' = e.disk
          /\ last' = Called("AllocatePage", a.id, e.err, <<>>, <<>>)
  /\ UNCHANGED <<diskFrame, fatal, cache, pages>>

\* Pager.FetchPage(id); ok says whether the write of a dirty victim succeeds
DiskFetch(id, ok) ==
  /\ fatal = NoErr
  /\ Len(pages) < MaxObjs
  /\ id \in DOMAIN cache.values => pages[PageOf(cache, id)].pinCount < MaxPins
  /\ LET g == LRUGet(cache, pages, id)
         offset == GetOffset(nEntries, id)
         page == Len(pages) + 1
         read == Pin(Append(pages, [id |-> id, pinCount |-> 0, dirty |-> FALSE,
                                    data |-> ReadAt(disk, offset)]), page)
         put == LRUPut(cache, read, id, page)
         s0 == [index |-> index, pages |-> read, disk |-> disk,
                writes |-> <<>>, err |-> NoErr]
         s == IF put.evictedID # InvalidPageID
              THEN SyncPage(s0, nEntries, put.evictedID, put.evictedPage,
                            IF ok THEN 0 ELSE 1)
              ELSE s0
     IN
     IF g.page # NilObj
     THEN /\ cache' = g.cache
          /\ pages' = g.pages
          /\ last' = Called("FetchPage", id, NoErr, <<>>, <<>>)
          /\ UNCHANGED <<disk, fatal>>
     ELSE IF offset = -1
     THEN /\ last' = Called("FetchPage", id, ErrPageNotAllocated, <<>>, <<>>)
          /\ UNCHANGED <<cache, pages, disk, fatal>>
     ELSE IF offset + PageSize > disk.size
     THEN /\ last' = Called("FetchPage", id, ErrRead, <<>>, <<>>)
          /\ UNCHANGED <<cache, pages, disk, fatal>>
     ELSE IF put.panic # NoErr
     THEN /\ fatal' = put.panic
          /\ pages' = read
          /\ UNCHANGED <<cache, disk, last>>
     ELSE /\ cache' = put.cache
          /\ pages' = IF s.err # NoErr THEN FlushFailed(s.pages, page)
                      ELSE s.pages
          /\ disk' = s.disk
          /\ last' = Called("FetchPage", id, s.err, s.writes, <<>>)
          /\ fatal' = fatal
  /\ UNCHANGED <<diskFrame, nEntries, index, storageSize>>

\* the holder of a pin changes the bytes of the page and calls MarkDirty
DiskWrite(o) ==
  /\ fatal = NoErr
  /\ o \in CachedPages
  /\ IsPinned(pages, o)
  /\ pages[o].data < MaxVer
  /\ pages' = [pages EXCEPT ![o].data = @ + 1, ![o].dirty = TRUE]
  /\ last' = Called("MarkDirty", pages[o].id, NoErr, <<>>, <<>>)
  /\ UNCHANGED <<diskFrame, nEntries, index, storageSize, disk, fatal, cache>>

\* the holder of a pin releases it
DiskUnpin(o) ==
  /\ fatal = NoErr
  /\ o \in CachedPages
  /\ IsPinned(pages, o)
  /\ pages' = UnpinPage(pages, o)
  /\ last' = Called("Unpin", pages[o].id, NoErr, <<>>, <<>>)
  /\ UNCHANGED <<diskFrame, nEntries, index, storageSize, disk, fatal, cache>>

\* Pager.SyncAll; the write numbered failAt fails
DiskSyncAll(failAt) ==
  /\ fatal = NoErr
  /\ LET s == SyncAll([index |-> index, pages |-> pages, disk |-> disk,
                       writes |-> <<>>, err |-> NoErr],
                      nEntries, cache, failAt)
     IN
     /\ failAt <= Len(s.writes)
     /\ index' = s.index
     /\ pages' = s.pages
     /\ disk' = s.disk
     /\ last' = Called("SyncAll", InvalidPageID, s.err, s.writes, <<>>)
  /\ UNCHANGED <<diskFrame, nEntries, storageSize, fatal, cache>>

\* the loop over FirstPage and NextPage
DiskScan ==
  /\ fatal = NoErr
  /\ last' = Called("Scan", InvalidPageID, NoErr, <<>>,
                    ScanFrom(nEntries, index, FirstPage(nEntries, index)))
  /\ UNCHANGED <<diskFrame, nEntries, index, storageSize, disk, fatal, cache,
                 pages>>

\* the program ends and NewPager opens the storage again: Seek, ensureSize
\* of one page (nothing to do on a storage NewPager made), and
\* ReadAllocationIndex
DiskReopen ==
  /\ disk.size % PageSize = 0
  /\ LET e == ensureSize(disk.size, disk, PageSize, TRUE) IN
     /\ storageSize' = e.storageSize
     /\ disk' = e.disk
     /\ nEntries' = e.disk.n
     /\ index' = [bits |-> e.disk.bits, dirty |-> FALSE]
  /\ cache' = NewLRUCache(DiskCacheCap)
  /\ pages' = <<>>
  /\ fatal' = NoErr
  /\ last' = Called("NewPager", InvalidPageID, NoErr, <<>>, <<>>)
  /\ UNCHANGED diskFrame

\* the pager without fetches: allocation, sync, iteration and reopening
AllocNext ==
  \/ \E ok \in BOOLEAN : DiskAllocate(ok, MaxAlloc)
  \/ \E failAt \in 0..1 : DiskSyncAll(failAt)
  \/ DiskScan
  \/ DiskReopen

SpecAlloc == DiskInit /\ [][AllocNext]_vars

DiskNext ==
  \/ \E ok \in BOOLEAN : DiskAllocate(ok, MaxFetchAlloc)
  \/ \E id \in DiskFetchIds, ok \in BOOLEAN : DiskFetch(id, ok)
  \/ \E o \in DOMAIN pages : DiskWrite(o)
  \/ \E o \in DOMAIN pages : DiskUnpin(o)
  \/ \E failAt \in 0..(DiskCacheCap + 1) : DiskSyncAll(failAt)
  \/ DiskScan
  \/ DiskReopen

SpecDisk == DiskInit /\ [][DiskNext]_vars

\* FetchPage(id) can read the whole page of id: id has an offset and the
\* storage holds PageSize bytes there
Readable(n, d, id) ==
  GetOffset(n, id) # -1 /\ GetOffset(n, id) + PageSize <= d.size

\* C13: when AllocatePage returns id without error, IsAllocated(id) holds,
\* the storage is at least (id + 1) * PageSize long and holds the whole
\* page at the offset of id; and every AllocatePage call, failed ones
\* included, keeps this true of every id of which it was true.
C13_AllocatedReadable ==
  [][last'.op = "AllocatePage" =>
       /\ last'.err = NoErr =>
            /\ IsAllocated(nEntries', index', last'.id)
            /\ disk'.size >= (last'.id + 1) * PageSize
            /\ Readable(nEntries', disk', last'.id)
       /\ \A id \in 0..MaxAlloc :
            (IsAllocated(nEntries, index, id) /\ Readable(nEntries, disk, id))
            => (IsAllocated(nEntries', index', id)
                /\ Readable(nEntries', disk', id))]_vars

\* the last of the AllocatePage calls returned without error after earlier
\* ones, and the storage holds the pages of all the ids
C13_Witness ==
  /\ last.op = "AllocatePage"
  /\ last.err = NoErr
  /\ last.id = MaxAlloc - 1
  /\ \A id \in 0..(MaxAlloc - 1) :
       IsAllocated(nEntries, index, id) /\ Readable(nEntries, disk, id)
  /\ disk.n > 0

\* NewPager has just opened a storage whose index records MaxAlloc pages,
\* and the loop over FirstPage and NextPage runs
ScanAfterReopen ==
  /\ last.op = "NewPager"
  /\ nEntries = MaxAlloc
  /\ last'.op = "Scan"

C15_SecondSyncAllWritesNothing ==
  /\ (last.op = "SyncAll" /\ last.err = NoErr) =>
       /\ ~index.dirty
       /\ \A o \in CachedPages : ~pages[o].dirty
  /\ (last.op = "SyncAll" /\ last.again) => last.writes = <<>>

\* ------------------------------------------------------------------
\* NewPager on the storages it can be given, AllocatePage and SyncAll on
\* the pager it returns, and the end of the program

MaxOpenPages == 2

MaxOpenAlloc == 4

\* the sizes of the storages NewPager is given: whole pages, and one byte
\* more or less
OpenSizes ==
  {p * PageSize + r : p \in 0..MaxOpenPages, r \in {0, 1, PageSize - 1}}

\* the storages NewPager is given: zero bytes of each size, and the storage
\* an earlier run left with n pages allocated and the index written
OpenFiles ==
  {[size |-> s, n |-> 0, bits |-> {}, data |-> <<>>] : s \in OpenSizes}
  \cup {[size |-> (n + 1) * PageSize, n |-> n, bits |-> 0..(n - 1),
         data |-> <<>>] :
          n \in (1..MaxOpenPages)
                \cup {IndexMaxEntriesPerPage - 1, IndexMaxEntriesPerPage}}

\* a NewPager that does not test the storage size
NewPagerAnySize(d, ok) ==
  Then(ensureSize(d.size, d, PageSize, ok), LAMBDA e :
  IF e.err # NoErr
  THEN [err |-> e.err, disk |-> e.disk, storageSize |-> 0, n |-> 0,
        index |-> [bits |-> {}, dirty |-> FALSE]]
  ELSE [err |-> NoErr, disk |-> e.disk, storageSize |-> e.storageSize,
        n |-> e.disk.n, index |-> [bits |-> e.disk.bits, dirty |-> FALSE]])

\* NewPager(maxPages, storage) on storage d: Seek to the end, the test of
\* the size, ensureSize of one page and ReadAllocationIndex; ok says
\* whether storage.Truncate succeeds
NewPager(d, ok) ==
  IF d.size % PageSize # 0
  THEN [err |-> ErrInvalidStorageSize, disk |-> d, storageSize |-> 0,
        n |-> 0, index |-> [bits |-> {}, dirty |-> FALSE]]
  ELSE Then(ensureSize(d.size, d, PageSize, ok), LAMBDA e :
       IF e.err # NoErr
       THEN [err |-> e.err, disk |-> e.disk, storageSize |-> 0, n |-> 0,
             index |-> [bits |-> {}, dirty |-> FALSE]]
       ELSE [err |-> NoErr, disk |-> e.disk, storageSize |-> e.storageSize,
             n |-> e.disk.n,
             index |-> [bits |-> e.disk.bits, dirty |-> FALSE]])

\* the key of the lock of the root page of the index
IndexRoot == "index"

\* a goroutine that is not in AllocatePage, and what its last call returned
OpenIdle == [pc |-> "idle", id |-> InvalidPageID, err |-> NoErr]

OpenInit ==
  /\ pg = <<>>
  /\ root = NewView(FALSE, InvalidPageID)
  /\ rootID = InvalidPageID
  /\ inserted = {}
  /\ last = [op |-> "closed", err |-> NoErr, id |-> InvalidPageID, size |-> 0]
  /\ ConcUnused
  /\ fatal = NoErr
  /\ cache = <<>>
  /\ pages = <<>>
  /\ pageLocks = {}
  /\ threads = [t \in Threads |-> OpenIdle]
  /\ evictions = {}
  /\ recency = <<>>
  /\ pgDirty = {}
  /\ pgPins = <<>>
  /\ nEntries = 0
  /\ index = [bits |-> {}, dirty |-> FALSE]
  /\ storageSize = 0
  /\ disk \in OpenFiles

openFrame == <<pg, root, rootID, inserted, procs, fatal, cache, pages,
               pageLocks, evictions, recency, pgDirty, pgPins>>

\* no goroutine is in a call of the pager
AllIdle == \A t \in Threads : threads[t].pc = "idle"

\* NewPager returned a pager and the program has not ended
Opened == last.op # "closed" /\ ~(last.op = "NewPager" /\ last.err # NoErr)

\* pager, err := NewPager(maxPages, storage)
OpenNewPager(ok) ==
  /\ last.op = "closed"
  /\ AllIdle
  /\ LET r == NewPager(disk, ok) IN
     /\ disk' = r.disk
     /\ storageSize' = r.storageSize
     /\ nEntries' = r.n
     /\ index' = r.index
     /\ last' = [op |-> "NewPager", err |-> r.err, id |-> InvalidPageID,
                 size |-> disk.size]
  /\ UNCHANGED <<openFrame, rw, threads>>

\* a goroutine calls pager.AllocatePage()
OpenAllocCall(t) ==
  /\ Opened
  /\ threads[t].pc = "idle"
  /\ nEntries < MaxOpenAlloc \/ nEntries >= IndexMaxEntriesPerPage - 1
  /\ threads' = [threads EXCEPT ![t] = [OpenIdle EXCEPT !.pc = "Lock"]]
  /\ UNCHANGED <<openFrame, rw, nEntries, index, storageSize, disk, last>>

\* index.Lock(); defer index.Unlock()
OpenAllocLock(t) ==
  /\ threads[t].pc = "Lock"
  /\ CanLock(rw, IndexRoot)
  /\ rw' = Lock(rw, IndexRoot)
  /\ threads' = [threads EXCEPT ![t].pc = "Allocate"]
  /\ UNCHANGED <<openFrame, nEntries, index, storageSize, disk, last>>

\* the rest of AllocatePage, under the lock of the index: index.Allocate(),
\* ensureSize and the deferred Unlock; ok says whether storage.Truncate
\* succeeds
OpenAllocate(t, ok) ==
  /\ threads[t].pc = "Allocate"
  /\ rw' = Unlock(rw, IndexRoot).m
  /\ LET a == Allocate(nEntries, index) IN
     IF a.id = InvalidPageID
     THEN /\ last' = [op |-> "AllocatePage", err |-> ErrNoFreePages,
                      id |-> a.id, size |-> disk.size]
          /\ threads' = [threads EXCEPT ![t] =
                           [pc |-> "idle", id |-> a.id, err |-> ErrNoFreePages]]
          /\ UNCHANGED <<nEntries, index, storageSize, disk>>
     ELSE LET e == ensureSize(storageSize, disk,
                              GetOffset(a.n, a.id) + PageSize, ok) IN
          /\ nEntries' = a.n
          /\ index' = a.index
          /\ storageSize' = e.storageSize
          /\ disk' = e.disk
          /\ last' = [op |-> "AllocatePage", err |-> e.err, id |-> a.id,
                      size |-> disk.size]
          /\ threads' = [threads EXCEPT ![t] =
                           [pc |-> "idle", id |-> a.id, err |-> e.err]]
  /\ UNCHANGED openFrame

\* pager.SyncAll() of a pager with an empty cache; with failAt = 1 the
\* write of the index fails
OpenSyncAll(failAt) ==
  /\ Opened
  /\ AllIdle
  /\ LET s == SyncPages([index |-> index, pages |-> <<>>, disk |-> disk,
                         writes |-> <<>>, err |-> NoErr], nEntries, failAt)
     IN
     /\ failAt <= Len(s.writes)
     /\ index' = s.index
     /\ disk' = s.disk
     /\ last' = [op |-> "SyncAll", err |-> s.err, id |-> InvalidPageID,
                 size |-> disk.size]
  /\ UNCHANGED <<openFrame, rw, threads, nEntries, storageSize>>

\* the program ends: the pager is gone and the storage stays
OpenEnd ==
  /\ last.op # "closed"
  /\ AllIdle
  /\ threads' = [t \in Threads |-> OpenIdle]
  /\ nEntries' = 0
  /\ index' = [bits |-> {}, dirty |-> FALSE]
  /\ storageSize' = 0
  /\ last' = [op |-> "closed", err |-> NoErr, id |-> InvalidPageID,
              size |-> disk.size]
  /\ UNCHANGED <<openFrame, rw, disk>>

OpenNext ==
  \/ \E ok \in BOOLEAN : OpenNewPager(ok)
  \/ \E t \in Threads : OpenAllocCall(t)
  \/ \E t \in Threads : OpenAllocLock(t)
  \/ \E t \in Threads, ok \in BOOLEAN : OpenAllocate(t, ok)
  \/ \E failAt \in 0..1 : OpenSyncAll(failAt)
  \/ OpenEnd

SpecOpen == OpenInit /\ [][OpenNext]_vars

\* C22: NewPager on a storage whose size is not a multiple of PageSize
\* returns ErrInvalidStorageSize and leaves the storage as it was; on an
\* empty storage, Truncate succeeding, it returns a pager, the storage is
\* one page long and the index read from page 0 has no entry; on a
\* storage of one or more whole pages it returns a pager on the index the
\* storage holds and the storage keeps its size and contents.
C22_NewPagerChecksSize ==
  [][last'.op = "NewPager" =>
       /\ disk.size % PageSize # 0 =>
            /\ last'.err = ErrInvalidStorageSize
            /\ disk' = disk
       /\ (disk.size = 0 /\ last'.err # ErrTruncate) =>
            /\ last'.err = NoErr
            /\ disk'.size = PageSize
            /\ storageSize' = PageSize
            /\ nEntries' = 0
            /\ \A id \in 0..MaxOpenAlloc : ~IsAllocated(nEntries', index', id)
       /\ (disk.size > 0 /\ disk.size % PageSize = 0) =>
            /\ last'.err = NoErr
            /\ disk' = disk
            /\ storageSize' = disk.size
            /\ nEntries' = disk.n]_vars

\* NewPager has opened the storage that an earlier run grew from nothing,
\* allocated pages in and wrote the index of
C22_Witness ==
  /\ last.op = "NewPager"
  /\ last.err = NoErr
  /\ last.size = (MaxOpenAlloc + 1) * PageSize
  /\ nEntries = MaxOpenAlloc
  /\ disk.n = MaxOpenAlloc

\* ------------------------------------------------------------------
\* The tree on the pager on its storage, called by one goroutine: Insert,
\* Search and Close, SyncAll, and NewPager and ReadBTree on the storage a
\* SyncAll left. The cache holds every page the tree fetched: the tree
\* never unpins a page, so none is ever evicted.

MaxSearches == 1

\* the pager and the tree as the variables hold them
StoreCur ==
  [TreeState(pg, nEntries, root, rootID) EXCEPT
     !.dirty = pgDirty, !.pin = pgPins, !.disk = disk]

\* NewPager on storage d: ReadAllocationIndex, an empty cache
NewPagerOn(d) ==
  [pg |-> <<>>, n |-> d.n, hp |-> <<>>, rootID |-> InvalidPageID,
   err |-> NoErr, dirty |-> {}, pin |-> <<>>, disk |-> d]

ReadBTree(st, rid) ==
  Then(FetchPage(st, rid), LAMBDA f :
  IF f.err # NoErr THEN f
  ELSE [f EXCEPT !.hp = <<readNode(f.pg[rid], rid)>>, !.rootID = rid])

\* the AllocatePage calls that take the index from n to target entries:
\* Allocate and ensureSize of each, every Truncate succeeding
RECURSIVE AllocateTo(_, _, _, _, _)
AllocateTo(n, ix, size, d, target) ==
  IF n >= target THEN [index |-> ix, storageSize |-> size, disk |-> d]
  ELSE Then(Allocate(n, ix), LAMBDA a :
       Then(ensureSize(size, d, GetOffset(a.n, a.id) + PageSize, TRUE),
            LAMBDA e :
       AllocateTo(a.n, a.index, e.storageSize, e.disk, target)))

\* writePage of the pages ids of the tree, none failing
RECURSIVE WritePages(_, _, _, _)
WritePages(d, n, p, ids) ==
  IF ids = {} THEN d
  ELSE Then(CHOOSE id \in ids : TRUE, LAMBDA id :
       WritePages(WriteAt(d, GetOffset(n, id), p[id]), n, p, ids \ {id}))

StoreInit ==
  LET t == InsertAll(NewBTree(EmptyPager), SeedPairs(ConcSeedLen))
      a == AllocateTo(0, [bits |-> {}, dirty |-> FALSE], PageSize,
                      EmptyStorage, t.n)
  IN
  /\ pg = t.pg
  /\ nEntries = t.n
  /\ root = t.hp[1]
  /\ rootID = t.rootID
  /\ inserted = {SeedPairs(ConcSeedLen)[i] : i \in 1..ConcSeedLen}
  /\ last = [op |-> "NewBTree", err |-> t.err, searches |-> 0]
  /\ ConcUnused
  /\ fatal = NoErr
  /\ cache = <<>>
  /\ pages = <<>>
  /\ pageLocks = {}
  /\ threads = <<>>
  /\ evictions = {}
  /\ recency = <<>>
  /\ index = a.index
  /\ storageSize = a.storageSize
  /\ disk = a.disk
  /\ pgDirty = t.dirty
  /\ pgPins = t.pin

storeFrame == <<procs, fatal, cache, pages, pageLocks, threads, evictions,
                recency>>

\* tree.Insert(k, v)
StoreInsert(k, v) ==
  /\ last.err = NoErr
  /\ k \notin InsertedKeys
  /\ LET t == Insert(StoreCur, k, v)
         a == AllocateTo(nEntries, index, storageSize, disk, t.n)
     IN
     /\ pg' = t.pg
     /\ nEntries' = t.n
     /\ root' = t.hp[1]
     /\ rootID' = t.rootID
     /\ inserted' = IF t.err = NoErr THEN inserted \cup {<<k, v>>}
                    ELSE inserted
     /\ pgDirty' = t.dirty
     /\ pgPins' = t.pin
     /\ index' = a.index
     /\ storageSize' = a.storageSize
     /\ disk' = a.disk
     /\ last' = [last EXCEPT !.op = "Insert", !.err = t.err]
  /\ UNCHANGED <<storeFrame, rw>>

\* c := tree.Search(k); c.Close()
StoreSearch(k) ==
  /\ last.err = NoErr
  /\ last.searches < MaxSearches
  /\ LET locked == RLock(rw, root.page)
         r == SearchLoop(StoreCur, root, k)
         closed == RUnlock(locked, root.page)
     IN
     /\ pg' = r.st.pg
     /\ pgPins' = r.st.pin
     /\ pgDirty' = r.st.dirty
     /\ rw' = closed.m
     /\ last' = [last EXCEPT !.op = "Search", !.searches = @ + 1]
  /\ UNCHANGED <<storeFrame, nEntries, root, rootID, inserted, index,
                 storageSize, disk>>

\* pager.SyncAll(); with failAt = 1 the first write of the call fails
StoreSyncAll(failAt) ==
  /\ last.err = NoErr
  /\ LET m == SyncPages([index |-> index, pages |-> <<>>, disk |-> disk,
                         writes |-> <<>>, err |-> NoErr], nEntries, failAt)
         fails == m.err = NoErr /\ failAt = Len(m.writes) + 1
                  /\ pgDirty # {}
     IN
     /\ failAt # 0 => (m.err # NoErr \/ fails)
     /\ index' = m.index
     /\ IF m.err # NoErr \/ fails
        THEN /\ disk' = m.disk
             /\ pgDirty' = pgDirty
             /\ last' = [last EXCEPT !.op = "SyncAll failed"]
        ELSE /\ disk' = WritePages(m.disk, nEntries, pg, pgDirty)
             /\ pgDirty' = {}
             /\ last' = [last EXCEPT !.op = "SyncAll"]
  /\ UNCHANGED <<storeFrame, rw, pg, nEntries, root, rootID, inserted,
                 storageSize, pgPins>>

\* the tree NewPager and ReadBTree(rootID) make of the storage
Reopened == ReadBTree(NewPagerOn(disk), rootID)

\* the program ends after a SyncAll that returned no error, and another run
\* opens the storage with NewPager and the tree with ReadBTree(rootID)
StoreReopen ==
  /\ last.err = NoErr
  /\ last.op = "SyncAll"
  /\ Reopened.err = NoErr
  /\ pg' = Reopened.pg
  /\ nEntries' = Reopened.n
  /\ root' = Reopened.hp[1]
  /\ index' = [bits |-> disk.bits, dirty |-> FALSE]
  /\ storageSize' = disk.size
  /\ pgDirty' = Reopened.dirty
  /\ pgPins' = Reopened.pin
  /\ last' = [last EXCEPT !.op = "ReadBTree"]
  /\ UNCHANGED <<storeFrame, rw, rootID, inserted, disk>>

StoreNext ==
  \/ \E k \in ConcKeys : \E v \in ValuesOf(k) : StoreInsert(k, v)
  \/ \E k \in SearchKeys \cup ConcKeys : StoreSearch(k)
  \/ \E failAt \in 0..1 : StoreSyncAll(failAt)
  \/ StoreReopen

SpecStore == StoreInit /\ [][StoreNext]_vars

\* the pair Get returns on the cursor of Search(key) in state st, or the
\* error of the cursor
Found(st, key) ==
  Then(SearchLoop(st, st.hp[1], key), LAMBDA r :
  IF r.err # NoErr THEN <<r.err>> ELSE Get(r.st, r))

\* C16: after a SyncAll that returned no error, the tree that NewPager and
\* ReadBTree(rootID) make of the storage answers Search(k) for every
\* inserted key k with the same pair as the tree in memory does.
C16_ReopenedSearchSame ==
  last.op = "SyncAll" =>
    /\ Reopened.err = NoErr
    /\ \A p \in inserted : Found(Reopened, p[1]) = Found(StoreCur, p[1])

\* C17: Search(k) followed by Close() leaves the contents and the dirty
\* flag of every page, the lock state of the root page and the pin count
\* of every page as they were before the Search.
C17_SearchCloseLeavesNoTrace ==
  [][last'.op = "Search" =>
       /\ \A id \in DOMAIN pg : pg'[id] = pg[id]
       /\ pgDirty' = pgDirty
       /\ rw' = rw
       /\ pgPins' = pgPins]_vars

\* C24: the AllocatePage calls of the goroutines of a pager run one at a
\* time; a call on an index of fewer than IndexMaxEntriesPerPage entries
\* returns the id equal to the number of entries, sets the bit of that id,
\* adds one to the number of entries and marks the index dirty; the number
\* of entries of a pager never decreases, so no two calls return the same
\* id; a call on an index of IndexMaxEntriesPerPage entries returns
\* ErrNoFreePages and leaves the number of entries, the bits and the
\* storage size as they were.
C24_AllocateNextId ==
  /\ [](Cardinality({t \in Threads : threads[t].pc = "Allocate"}) <= 1)
  /\ [][(Opened /\ last'.op # "closed") => nEntries' >= nEntries]_vars
  /\ [][(\E t \in Threads : threads[t].pc = "Allocate" /\ threads'[t].pc = "idle")
        => /\ last'.op = "AllocatePage"
           /\ IF nEntries < IndexMaxEntriesPerPage
              THEN /\ last'.err # ErrNoFreePages
                   /\ last'.id = nEntries
                   /\ index'.bits = index.bits \cup {nEntries}
                   /\ IsAllocated(nEntries', index', last'.id)
                   /\ nEntries' = nEntries + 1
                   /\ index'.dirty
              ELSE /\ last'.err = ErrNoFreePages
                   /\ last'.id = InvalidPageID
                   /\ nEntries' = nEntries
                   /\ index' = index
                   /\ disk' = disk
                   /\ storageSize' = storageSize]_vars

\* of two goroutines that called AllocatePage while one entry was left,
\* one was returned the last id and the other ErrNoFreePages
C24_Witness ==
  /\ AllIdle
  /\ nEntries = IndexMaxEntriesPerPage
  /\ \E t \in Threads :
       threads[t].id = IndexMaxEntriesPerPage - 1 /\ threads[t].err = NoErr
  /\ \E t \in Threads : threads[t].err = ErrNoFreePages

\* a step of the FetchPage call of goroutine t for an id the allocation
\* index does not record
UnallocatedStep(t) ==
  /\ threads[t].pc \in {"fp_lock", "fp_get", "fp_put"}
  /\ threads[t].id >= nEntries
  /\ threads'[t] # threads[t]

\* C23: FetchPage(id) of an id the allocation index does not record as
\* allocated changes neither the cache, nor the order of its list, nor a
\* pin count at any of its steps, and it returns ErrPageNotAllocated and
\* no page with the lock of the shard of id released.
C23_NotAllocatedNoTrace ==
  [][\A t \in Threads :
       UnallocatedStep(t) =>
         /\ cache' = cache
         /\ pages' = pages
         /\ threads'[t].pc = "idle" =>
              /\ threads[t].pc = "fp_put"
              /\ threads'[t].err = ErrPageNotAllocated
              /\ threads'[t].held = threads[t].held
              /\ lockIndex(threads[t].id) \notin pageLocks']_vars

\* FetchPage of an id that is not allocated returned while the cache was
\* full and the other goroutine held a pinned page
C23_Witness ==
  \E t \in Threads :
    /\ threads[t].pc = "idle"
    /\ threads[t].err = ErrPageNotAllocated
    /\ Cardinality(DOMAIN cache.values) = CacheCap
    /\ \E u \in Threads \ {t} : \E o \in threads[u].held :
         IsPinned(pages, o)

\* ------------------------------------------------------------------
\* The tree on a pager whose allocation index is nearly full: other users
\* of the pager allocated all but a few of its pages before NewBTree

MaxSpare == 5

\* the pages NewBTree and the Inserts of seq allocate
PagesUsed(seq) == InsertAll(NewBTree(EmptyPager), seq).n

\* NewBTree and the seed Inserts on a pager that has spare pages left
\* after them
FullInit ==
  /\ \E n \in SeedLens, spare \in 0..MaxSpare :
       TreeInit2(SeedPairs(n),
                 IndexMaxEntriesPerPage - PagesUsed(SeedPairs(n)) - spare)
  /\ fatal = NoErr
  /\ ConcUnused
  /\ PagerUnused

MaxFullKey == 7

\* tree.Insert(k, v) of a key below the seed keys
FullInsert ==
  /\ last.err = NoErr
  /\ \E k \in (0..MaxFullKey) \ InsertedKeys : \E v \in ValuesOf(k) :
       DoInsert(k, v)
  /\ UNCHANGED <<concVars, fatal, pagerVars>>

SpecFull == FullInit /\ [][FullInsert]_vars

\* the Insert of this step failed because the index is exhausted
InsertNoFreePages == last'.op = "Insert" /\ last'.err = "ErrNoFreePages"

\* C25: an Insert that fails with ErrNoFreePages leaves every previously
\* inserted pair returned by Search as before, and leaves the tree sorted,
\* balanced, with ordered branches and a consistent leaf chain if it was.
C25_NoFreePagesIntact ==
  [][InsertNoFreePages =>
       /\ inserted' = inserted
       /\ \A p \in inserted :
            LET c == Search(Cur, p[1])
                d == Search(Cur', p[1])
            IN (c.err = NoErr /\ Get(Cur, c) = p)
                 => (d.err = NoErr /\ Get(Cur', d) = p)
       /\ C5_NodesSorted'
       /\ Balanced => Balanced'
       /\ (\A b \in Branches : BranchOrdered(b))
            => (\A b \in Branches : BranchOrdered(b))'
       /\ ChainConsistent => ChainConsistent']_vars

\* an Insert failed with ErrNoFreePages after it had split the root branch:
\* it allocated the new root and the right sibling and found no page for
\* the new leaf
C25_Witness ==
  /\ last.op = "Insert"
  /\ last.err = "ErrNoFreePages"
  /\ last.alloc = 2
  /\ nEntries = IndexMaxEntriesPerPage

\* only keys of Keys were inserted: the tree was made by NewBTree alone
FreshRun == InsertedKeys \subseteq Keys

\* the Inserts so far are those of LeafNodeCap + 1 keys into a fresh tree
CapPlusOne ==
  FreshRun /\ NoError /\ Cardinality(inserted) = LeafNodeCap + 1

\* after the Inserts: one page was allocated beyond the three of NewBTree,
\* and it is a leaf
OneNewLeaf ==
  /\ Cardinality(DOMAIN pg) = 4
  /\ nEntries = 4
  /\ Cardinality(Leaves) = 3

\* the Insert of this step split the full leaf l: the parent holds the key
\* at position LeafNodeCap / 2 - 1 of l (counted from 0) for l
SplitWithSeparator ==
  /\ last'.alloc = 1
  /\ \E l \in Leaves :
       /\ pg[l].slotsTaken = LeafNodeCap
       /\ \E i \in 1..pg'[rootID'].slotsTaken :
            pg'[rootID'].ents[i] = <<pg[l].ents[LeafNodeCap \div 2][1], l>>
       /\ \A k \in KeysOf(l)' : k <= pg[l].ents[LeafNodeCap \div 2][1]

\* C26 as stated: the Inserts of any LeafNodeCap + 1 pairwise distinct keys
\* into a fresh tree allocate exactly one new page, a leaf, in exactly one
\* leaf split, and the split puts the key at position LeafNodeCap / 2 - 1
\* of the leaf in the parent as the separator of the left half.
C26_AnyKeysOneSplit ==
  /\ [](CapPlusOne => OneNewLeaf)
  /\ [][CapPlusOne' => SplitWithSeparator]_vars

\* C26 amended: the same of any LeafNodeCap + 1 pairwise distinct keys
\* greater than 0; the split happens in the last of the Inserts.
C26_PositiveKeysOneSplit ==
  /\ []((CapPlusOne /\ 0 \notin InsertedKeys) => OneNewLeaf)
  /\ [][(CapPlusOne' /\ 0 \notin InsertedKeys') => SplitWithSeparator]_vars

\* LeafNodeCap + 1 keys greater than 0 were inserted into a fresh tree
\* and the last Insert split the right leaf, which left a leaf with
\* LeafNodeCap / 2 + 1 entries
C26_Witness ==
  /\ CapPlusOne
  /\ 0 \notin InsertedKeys
  /\ last.alloc = 1
  /\ \E l \in Leaves : pg[l].slotsTaken = LeafNodeCap \div 2 + 1

\* C27: when keys were inserted, Search of a key smaller than every
\* inserted key returns a cursor without error at idx 0 of the leftmost
\* leaf of the leaf chain, and Get returns the pair of the smallest
\* inserted key.
C27_SearchBelowAll ==
  (NoError /\ inserted # {}) =>
    \A key \in 0..(Min(InsertedKeys) - 1) :
      LET c == Search(Cur, key) IN
      /\ c.err = NoErr
      /\ c.idx = 0
      /\ c.node.page = Leftmost(rootID, MaxDepth)
      /\ Get(Cur, c) = SortedPairs(inserted)[1]

\* C28: on the tree NewBTree made, before any Insert, Search(0) returns a
\* cursor without error whose Get() is (0, 0) and whose first Forward()
\* returns false.
C28_FreshSearchZero ==
  (NoError /\ inserted = {}) =>
    LET c == Search(Cur, 0) IN
    /\ c.err = NoErr
    /\ Get(Cur, c) = <<0, 0>>
    /\ ~Forward(Cur, c).ok

\* the pairs of the keys 0..n in ascending order
AscPairs(n) ==
  [i \in 1..(n + 1) |-> <<i - 1, CHOOSE v \in ValuesOf(i - 1) : TRUE>>]

\* the keys 0..n were inserted into a fresh tree in ascending order
AscendingRun(n) ==
  /\ NoError
  /\ InsertedKeys = 0..n
  /\ pg = InsertAll(NewBTree(EmptyPager), AscPairs(n)).pg

\* C29: after the Inserts of the keys 0..N in ascending order into a fresh
\* tree with LeafNodeCap = 4, every leaf of the leaf chain but the last
\* holds at least LeafNodeCap / 2 entries.
C29_LeavesHalfFull ==
  \A n \in Keys :
    AscendingRun(n) =>
      \A i \in 1..(Len(LeafChain) - 1) :
        pg[LeafChain[i]].slotsTaken >= LeafNodeCap \div 2

\* ------------------------------------------------------------------------
\* Specification with repeated keys: one thread inserts keys of DupKeys
\* into a fresh tree, any key any number of times; the value of the i-th
\* Insert is 2 * i + 1, so the values tell the order of the Inserts
\* ------------------------------------------------------------------------
\* the keys inserted repeatedly are 0..MaxDupKey
MaxDupKey == 2
\* number of Inserts of a run
MaxDupInserts == 7

DupKeys == 0..MaxDupKey

DupInit ==
  /\ TreeInit(<<>>)
  /\ fatal = NoErr
  /\ ConcUnused
  /\ PagerUnused

DupInsert ==
  /\ last.err = NoErr
  /\ Cardinality(inserted) < MaxDupInserts
  /\ \E k \in DupKeys : DoInsert(k, 2 * Cardinality(inserted) + 1)
  /\ UNCHANGED <<concVars, fatal, pagerVars>>

SpecDup == DupInit /\ [][DupInsert]_vars

\* the pairs a reader gets from Search(key) and Forward while the key of the
\* pair under the cursor is key: Get() at every position that holds an entry,
\* up to the first entry of another key
DupScan(st, key) ==
  LET pos == ScanPositions(st, Search(st, key),
                           Cardinality(inserted) + Cardinality(DOMAIN pg))
      held == SelectSeq(pos, LAMBDA c : c.idx < c.node.slotsTaken)
      got == [i \in 1..Len(held) |-> Get(st, held[i])]
      stop == Min({i \in 1..Len(got) : got[i][1] # key} \cup {Len(got) + 1})
  IN SubSeq(got, 1, stop - 1)

\* the pairs of set S in ascending order of their values
RECURSIVE ByValue(_)
ByValue(S) ==
  IF S = {} THEN <<>>
  ELSE LET p == CHOOSE x \in S : \A y \in S : x[2] <= y[2]
       IN <<p>> \o ByValue(S \ {p})

\* C30: when a key is inserted several times with different values, the
\* cursor of Search(key) advanced with Forward yields the pairs of that key
\* in the order of their Inserts, the earliest inserted first.
C30_DuplicatesInInsertOrder ==
  NoError =>
    \A key \in DupKeys :
      DupScan(Cur, key) = ByValue({p \in inserted : p[1] = key})

\* ------------------------------------------------------------------------
\* Properties of the storage length (SpecDisk)
\* ------------------------------------------------------------------------

\* C31: in every state after NewPager the length of the storage is a
\* multiple of PageSize, and no step of the pager (AllocatePage, FetchPage
\* with its flush of the victim, SyncAll with its SyncPage calls, NewPager
\* on the storage again) makes the storage shorter.
C31_StorageGrowsByPages ==
  /\ [](disk.size % PageSize = 0)
  /\ [][disk.size' >= disk.size]_vars

\* pages were allocated, the storage has grown by them, and a SyncAll has
\* just written a page of the cache after the index page
C31_Witness ==
  /\ last.op = "SyncAll"
  /\ last.err = NoErr
  /\ Len(last.writes) >= 2
  /\ disk.size = (1 + nEntries) * PageSize
  /\ nEntries >= 2

\* ------------------------------------------------------------------------
\* The pager called by several goroutines, with the contents of the pages
\* and of the storage, and with cache.m: FetchPage, the writes of the
\* holders of a page, Unpin, SyncPage called by a holder, and SyncAll.
\* cache.m is held inside Get and Put, which are one step each, and by
\* ForEach from its first node to its return; the lock of a shard is held
\* from lockPageID to unlockPageID. A holder writes a page and calls
\* SyncPage under page.Lock(), as Table.insertInto does, and may call
\* FetchPage while it holds that lock, as BTree.Insert does under the lock
\* of the root page; rw holds Page.m of the Page objects. Nothing is
\* allocated, so the index page is clean and SyncMetadata writes nothing.
\* ------------------------------------------------------------------------
\* FetchPage calls each goroutine makes
MaxSyncFetches == 2
\* SyncPage and SyncAll calls each goroutine makes
MaxSyncs == 1
\* maxPages of NewPager
SyncCacheCap == 1
\* the ids fetched: 0 and 128 share a page lock
SyncIds == {0, 1, NumPageLocks}
\* an id the index does not hold
UnallocatedID == PagerEntries

SyncIdle ==
  [pc |-> "idle", id |-> InvalidPageID, page |-> NilObj, held |-> {},
   fetches |-> 0, syncs |-> 0, err |-> NoErr,
   ret |-> "none", sid |-> InvalidPageID, so |-> NilObj, node |-> NilNode,
   wl |-> NilObj]

\* a call returns err to its caller
SyncReturned(th, err) ==
  [SyncIdle EXCEPT !.held = th.held, !.fetches = th.fetches,
                   !.syncs = th.syncs, !.wl = th.wl, !.err = err]

\* cache.m is locked: a goroutine is inside ForEach
CacheLocked == \E t \in Threads : threads[t].ret = "foreach"

SyncInitOf(maxPages) ==
  /\ pg = <<>>
  /\ nEntries = PagerEntries
  /\ root = NewView(FALSE, InvalidPageID)
  /\ rootID = InvalidPageID
  /\ inserted = {}
  /\ last = [op |-> "NewPager", err |-> NoErr, alloc |-> 0]
  /\ ConcUnused
  /\ fatal = NoErr
  /\ cache = NewLRUCache(maxPages)
  /\ pages = <<>>
  /\ pageLocks = {}
  /\ threads = [t \in Threads |-> SyncIdle]
  /\ evictions = {}
  /\ recency = <<>>
  /\ index = [bits |-> 0..(PagerEntries - 1), dirty |-> FALSE]
  /\ storageSize = (1 + PagerEntries) * PageSize
  /\ disk = [EmptyStorage EXCEPT !.size = (1 + PagerEntries) * PageSize,
                                 !.n = PagerEntries,
                                 !.bits = 0..(PagerEntries - 1)]
  /\ pgDirty = {}
  /\ pgPins = <<>>

syncFrame == <<treeVars, procs, evictions, recency, index, storageSize,
               pgDirty, pgPins>>

\* FetchPage(id) is called by a goroutine that holds no page of that id
SyFetchCall(t, calls) ==
  /\ fatal = NoErr
  /\ threads[t].pc = "idle"
  /\ threads[t].fetches < calls
  /\ \E id \in SyncIds \ {pages[o].id : o \in threads[t].held} :
       threads' = [threads EXCEPT ![t].pc = "fp_lock", ![t].id = id,
                                  ![t].fetches = @ + 1]
  /\ UNCHANGED <<syncFrame, rw, fatal, cache, pages, pageLocks, disk>>

\* pager.lockPageID(id) returns
SyFpLock(t) ==
  /\ fatal = NoErr
  /\ threads[t].pc = "fp_lock"
  /\ lockIndex(threads[t].id) \notin pageLocks
  /\ pageLocks' = pageLocks \cup {lockIndex(threads[t].id)}
  /\ threads' = [threads EXCEPT ![t].pc = "fp_get"]
  /\ UNCHANGED <<syncFrame, rw, fatal, cache, pages, disk>>

\* page := pager.cache.Get(id), which waits for cache.m; on a hit
\* unlockPageID and return
SyFpGet(t) ==
  /\ fatal = NoErr
  /\ threads[t].pc = "fp_get"
  /\ ~CacheLocked
  /\ LET g == LRUGet(cache, pages, threads[t].id) IN
     /\ cache' = g.cache
     /\ pages' = g.pages
     /\ IF g.page # NilObj
        THEN /\ pageLocks' = pageLocks \ {lockIndex(threads[t].id)}
             /\ threads' = [threads EXCEPT
                              ![t] = [SyncReturned(threads[t], NoErr) EXCEPT
                                        !.held = @ \cup {g.page}]]
        ELSE /\ pageLocks' = pageLocks
             /\ threads' = [threads EXCEPT ![t].pc = "fp_put"]
  /\ UNCHANGED <<syncFrame, rw, fatal, disk>>

\* readPage, page.Pin(), cache.Put, which waits for cache.m, unlockPageID;
\* with a victim FetchPage goes on to evictedPage.RLock() and SyncPage
SyFpPut(t) ==
  /\ fatal = NoErr
  /\ threads[t].pc = "fp_put"
  /\ ~CacheLocked
  /\ LET id == threads[t].id
         offset == GetOffset(nEntries, id)
         page == Len(pages) + 1
         read == Pin(Append(pages, [id |-> id, pinCount |-> 0, dirty |-> FALSE,
                                    data |-> ReadAt(disk, offset)]), page)
         put == LRUPut(cache, read, id, page)
     IN
     IF offset = -1
     THEN /\ pageLocks' = pageLocks \ {lockIndex(id)}
          /\ threads' = [threads EXCEPT
                           ![t] = SyncReturned(threads[t],
                                               ErrPageNotAllocated)]
          /\ UNCHANGED <<cache, pages, fatal>>
     ELSE IF put.panic # NoErr
     THEN /\ fatal' = put.panic
          /\ pages' = read
          /\ UNCHANGED <<cache, pageLocks, threads>>
     ELSE /\ cache' = put.cache
          /\ pages' = read
          /\ pageLocks' = pageLocks \ {lockIndex(id)}
          /\ fatal' = fatal
          /\ IF put.evictedID # InvalidPageID
             THEN threads' = [threads EXCEPT
                                ![t].pc = "sp_rlock", ![t].page = page,
                                ![t].ret = "fetch",
                                ![t].sid = put.evictedID,
                                ![t].so = put.evictedPage]
             ELSE threads' = [threads EXCEPT
                                ![t] = [SyncReturned(threads[t], NoErr) EXCEPT
                                          !.held = @ \cup {page}]]
  /\ UNCHANGED <<syncFrame, rw, disk>>

\* evictedPage.RLock() of FetchPage and page.RLock() of SyncAll return
SySpRLock(t) ==
  /\ fatal = NoErr
  /\ threads[t].pc = "sp_rlock"
  /\ CanRLock(rw, threads[t].so)
  /\ rw' = RLock(rw, threads[t].so)
  /\ threads' = [threads EXCEPT ![t].pc = "sp_enter"]
  /\ UNCHANGED <<syncFrame, fatal, cache, pages, pageLocks, disk>>

\* SyncPage(sid, so) begins: a clean page returns nil at once
SySpEnter(t) ==
  /\ fatal = NoErr
  /\ threads[t].pc = "sp_enter"
  /\ threads' = IF pages[threads[t].so].dirty
                THEN [threads EXCEPT ![t].pc = "sp_lock"]
                ELSE [threads EXCEPT ![t].pc = "sp_done", ![t].err = NoErr]
  /\ UNCHANGED <<syncFrame, rw, fatal, cache, pages, pageLocks, disk>>

\* pager.lockPageID(id) of SyncPage returns
SySpLock(t) ==
  /\ fatal = NoErr
  /\ threads[t].pc = "sp_lock"
  /\ lockIndex(threads[t].sid) \notin pageLocks
  /\ pageLocks' = pageLocks \cup {lockIndex(threads[t].sid)}
  /\ threads' = [threads EXCEPT ![t].pc = "sp_write"]
  /\ UNCHANGED <<syncFrame, rw, fatal, cache, pages, disk>>

\* SyncPage past its IsDirty test, on a page another goroutine may have
\* cleaned since: the write, and MarkClean after a write without error; a
\* failed write leaves the flag of that page as it found it
SyncPageLocked(s, n, id, o, failAt) ==
  LET r == SyncPage([s EXCEPT !.pages[o].dirty = TRUE], n, id, o, failAt) IN
  IF r.err # NoErr
  THEN [r EXCEPT !.pages[o].dirty = @ /\ s.pages[o].dirty]
  ELSE r

\* writePage, MarkClean after a write without error, and the deferred
\* unlockPageID; ok says whether storage.WriteAt succeeds
SySpWrite(t) ==
  /\ fatal = NoErr
  /\ threads[t].pc = "sp_write"
  /\ \E ok \in BOOLEAN :
       LET s == SyncPageLocked([index |-> index, pages |-> pages,
                                disk |-> disk, writes |-> <<>>,
                                err |-> NoErr],
                               nEntries, threads[t].sid, threads[t].so,
                               IF ok THEN 0 ELSE 1)
       IN /\ pages' = s.pages
          /\ disk' = s.disk
          /\ threads' = [threads EXCEPT ![t].pc = "sp_done", ![t].err = s.err]
  /\ pageLocks' = pageLocks \ {lockIndex(threads[t].sid)}
  /\ UNCHANGED <<syncFrame, rw, fatal, cache>>

\* FetchPage after SyncPage of the victim: evictedPage.RUnlock(), and
\* page.Unpin() before return nil, err
SyFetchDone(t) ==
  /\ fatal = NoErr
  /\ threads[t].pc = "sp_done"
  /\ threads[t].ret = "fetch"
  /\ IF threads[t].err = NoErr
     THEN /\ threads' = [threads EXCEPT
                           ![t] = [SyncReturned(threads[t], NoErr) EXCEPT
                                     !.held = @ \cup {threads[t].page}]]
          /\ pages' = pages
     ELSE /\ threads' = [threads EXCEPT
                           ![t] = SyncReturned(threads[t], threads[t].err)]
          /\ pages' = FlushFailed(pages, threads[t].page)
  /\ rw' = RUnlock(rw, threads[t].so).m
  /\ UNCHANGED <<syncFrame, fatal, cache, pageLocks, disk>>

\* the holder of the lock of a page calls SyncPage(id, page), with the id of
\* the page or with an id that is not allocated
SySyncCall(t) ==
  /\ fatal = NoErr
  /\ threads[t].pc = "idle"
  /\ threads[t].syncs < MaxSyncs
  /\ threads[t].wl # NilObj
  /\ \E id \in {pages[threads[t].wl].id, UnallocatedID} :
       threads' = [threads EXCEPT ![t].pc = "sp_enter", ![t].ret = "direct",
                                  ![t].sid = id, ![t].so = threads[t].wl,
                                  ![t].syncs = @ + 1]
  /\ UNCHANGED <<syncFrame, rw, fatal, cache, pages, pageLocks, disk>>

\* SyncPage returns to the holder that called it
SyDirectDone(t) ==
  /\ fatal = NoErr
  /\ threads[t].pc = "sp_done"
  /\ threads[t].ret = "direct"
  /\ threads' = [threads EXCEPT
                   ![t] = SyncReturned(threads[t], threads[t].err)]
  /\ UNCHANGED <<syncFrame, rw, fatal, cache, pages, pageLocks, disk>>

\* SyncAll is called by a goroutine that holds the lock of no page;
\* SyncMetadata finds the index page clean
SySyncAllCall(t) ==
  /\ fatal = NoErr
  /\ threads[t].pc = "idle"
  /\ threads[t].syncs < MaxSyncs
  /\ threads[t].wl = NilObj
  /\ threads' = [threads EXCEPT ![t].pc = "sa_foreach", ![t].syncs = @ + 1]
  /\ UNCHANGED <<syncFrame, rw, fatal, cache, pages, pageLocks, disk>>

\* cache.ForEach: cache.m.Lock() returns; node := cache.recentlyUsed, and
\* f(node.id, node.page) begins with page.RLock() and SyncPage
SySaForEach(t) ==
  /\ fatal = NoErr
  /\ threads[t].pc = "sa_foreach"
  /\ ~CacheLocked
  /\ threads' =
       IF cache.recentlyUsed = NilNode
       THEN [threads EXCEPT ![t] = SyncReturned(threads[t], NoErr)]
       ELSE [threads EXCEPT
               ![t].pc = "sp_rlock", ![t].ret = "foreach",
               ![t].node = cache.recentlyUsed,
               ![t].sid = cache.nodes[cache.recentlyUsed].id,
               ![t].so = cache.nodes[cache.recentlyUsed].page]
  /\ UNCHANGED <<syncFrame, rw, fatal, cache, pages, pageLocks, disk>>

\* f returns err == nil after page.RUnlock(): ForEach goes to node.prev, or
\* it breaks or ends, unlocks cache.m, and SyncAll returns err
SySaDone(t) ==
  /\ fatal = NoErr
  /\ threads[t].pc = "sp_done"
  /\ threads[t].ret = "foreach"
  /\ LET prev == cache.nodes[threads[t].node].prev IN
     threads' =
       IF threads[t].err = NoErr /\ prev # NilNode
       THEN [threads EXCEPT
               ![t].pc = "sp_rlock", ![t].node = prev,
               ![t].sid = cache.nodes[prev].id,
               ![t].so = cache.nodes[prev].page]
       ELSE [threads EXCEPT
               ![t] = SyncReturned(threads[t], threads[t].err)]
  /\ rw' = RUnlock(rw, threads[t].so).m
  /\ UNCHANGED <<syncFrame, fatal, cache, pages, pageLocks, disk>>

\* page.Lock() of a page the goroutine holds a pin of returns
SyPageLock(t) ==
  /\ fatal = NoErr
  /\ threads[t].pc = "idle"
  /\ threads[t].wl = NilObj
  /\ \E o \in threads[t].held :
       /\ CanLock(rw, o)
       /\ rw' = Lock(rw, o)
       /\ threads' = [threads EXCEPT ![t].wl = o]
  /\ UNCHANGED <<syncFrame, fatal, cache, pages, pageLocks, disk>>

\* the holder of the lock changes the bytes of the page and calls MarkDirty
SyModify(t) ==
  /\ fatal = NoErr
  /\ threads[t].pc = "idle"
  /\ threads[t].wl # NilObj
  /\ pages[threads[t].wl].data < MaxVer
  /\ pages' = [pages EXCEPT ![threads[t].wl].data = @ + 1,
                            ![threads[t].wl].dirty = TRUE]
  /\ UNCHANGED <<syncFrame, rw, fatal, cache, pageLocks, threads, disk>>

\* page.Unlock()
SyPageUnlock(t) ==
  /\ fatal = NoErr
  /\ threads[t].pc = "idle"
  /\ threads[t].wl # NilObj
  /\ rw' = Unlock(rw, threads[t].wl).m
  /\ threads' = [threads EXCEPT ![t].wl = NilObj]
  /\ UNCHANGED <<syncFrame, fatal, cache, pages, pageLocks, disk>>

\* the holder of a pin releases it, after the lock of the page
SyUnpin(t) ==
  /\ fatal = NoErr
  /\ threads[t].pc = "idle"
  /\ \E o \in threads[t].held \ {threads[t].wl} :
       /\ pages' = UnpinPage(pages, o)
       /\ threads' = [threads EXCEPT ![t].held = @ \ {o}]
  /\ UNCHANGED <<syncFrame, rw, fatal, cache, pageLocks, disk>>

SyncNext ==
  \E t \in Threads :
    \/ SyFetchCall(t, MaxSyncFetches)
    \/ SyFpLock(t)
    \/ SyFpGet(t)
    \/ SyFpPut(t)
    \/ SySpRLock(t)
    \/ SySpEnter(t)
    \/ SySpLock(t)
    \/ SySpWrite(t)
    \/ SyFetchDone(t)
    \/ SySyncCall(t)
    \/ SyDirectDone(t)
    \/ SySyncAllCall(t)
    \/ SySaForEach(t)
    \/ SySaDone(t)
    \/ SyPageLock(t)
    \/ SyModify(t)
    \/ SyPageUnlock(t)
    \/ SyUnpin(t)

SyncInit == SyncInitOf(SyncCacheCap)

SpecSync == SyncInit /\ [][SyncNext]_vars

\* ------------------------------------------------------------------------
\* The same pager with room for two pages, called by goroutines that fetch,
\* write and unpin pages and call neither SyncPage nor SyncAll: the only
\* flushes are those of the victims of FetchPage
\* ------------------------------------------------------------------------
\* FetchPage calls each goroutine makes
MaxRaceFetches == 2
\* maxPages of NewPager
RaceCacheCap == 2

RaceInit == SyncInitOf(RaceCacheCap)

RaceNext ==
  \E t \in Threads :
    \/ SyFetchCall(t, MaxRaceFetches)
    \/ SyFpLock(t)
    \/ SyFpGet(t)
    \/ SyFpPut(t)
    \/ SySpRLock(t)
    \/ SySpEnter(t)
    \/ SySpLock(t)
    \/ SySpWrite(t)
    \/ SyFetchDone(t)
    \/ SyPageLock(t)
    \/ SyModify(t)
    \/ SyPageUnlock(t)
    \/ SyUnpin(t)

SpecRace == RaceInit /\ [][RaceNext]_vars

\* ------------------------------------------------------------------------
\* Properties of SyncPage (SpecSync)
\* ------------------------------------------------------------------------

\* C32: SyncPage(id, page) of a clean page writes nothing and returns nil.
\* Of a dirty page it takes the lock of the shard of id; then either it
\* writes the bytes of the page at offset (id + 1) * PageSize, marks the
\* page clean and returns nil, or (the write fails, or id is not allocated)
\* it returns the error, writes nothing and leaves the dirty flag as it is.
\* When it returns, the lock of the shard is released.
C32_SyncPageContract ==
  [][\A t \in Threads :
       LET th == threads[t]
           after == threads'[t]
           offset == (th.sid + 1) * PageSize
       IN
       /\ (th.pc = "sp_enter" /\ after.pc # "sp_enter") =>
            IF pages[th.so].dirty
            THEN after.pc = "sp_lock"
            ELSE /\ after.pc = "sp_done"
                 /\ after.err = NoErr
                 /\ disk' = disk
                 /\ pages' = pages
                 /\ pageLocks' = pageLocks
       /\ (th.pc = "sp_lock" /\ after.pc # "sp_lock") =>
            /\ after.pc = "sp_write"
            /\ lockIndex(th.sid) \notin pageLocks
            /\ lockIndex(th.sid) \in pageLocks'
       /\ (th.pc = "sp_write" /\ after.pc # "sp_write") =>
            /\ after.pc = "sp_done"
            /\ pageLocks' = pageLocks \ {lockIndex(th.sid)}
            /\ th.sid >= nEntries => after.err = ErrPageNotAllocated
            /\ IF after.err = NoErr
               THEN /\ disk'.data = (offset :> pages[th.so].data) @@ disk.data
                    /\ disk'.size = disk.size
                    /\ pages' = [pages EXCEPT ![th.so].dirty = FALSE]
               ELSE /\ disk' = disk
                    /\ pages' = pages]_vars

\* a SyncPage of a dirty page has just failed to write, the page is still
\* dirty and the lock of its shard is free, after another SyncPage wrote a
\* page to the storage
C32_Witness ==
  \E t \in Threads :
    /\ threads[t].pc = "sp_done"
    /\ threads[t].err = ErrWrite
    /\ pages[threads[t].so].dirty
    /\ lockIndex(threads[t].sid) \notin pageLocks
    /\ disk.data # <<>>

\* the goroutines that hold what goroutine t is waiting for: the lock of a
\* shard, cache.m, or Page.m of a page another goroutine has write-locked
WaitsFor(t) ==
  LET th == threads[t]
      shard(u) == IF threads[u].pc \in {"fp_get", "fp_put"}
                  THEN {lockIndex(threads[u].id)}
                  ELSE IF threads[u].pc = "sp_write"
                  THEN {lockIndex(threads[u].sid)}
                  ELSE {}
      others == Threads \ {t}
  IN IF th.pc = "fp_lock"
     THEN {u \in others : lockIndex(th.id) \in shard(u)}
     ELSE IF th.pc = "sp_lock"
     THEN {u \in others : lockIndex(th.sid) \in shard(u)}
     ELSE IF th.pc \in {"fp_get", "fp_put", "sa_foreach"}
     THEN {u \in others : threads[u].ret = "foreach"}
     ELSE IF th.pc = "sp_rlock"
     THEN {u \in others : threads[u].wl = th.so}
     ELSE {}

\* a set of goroutines each of which waits for a lock that a goroutine of
\* the set holds
Deadlocked ==
  \E S \in SUBSET Threads \ {{}} :
    \A t \in S : WaitsFor(t) # {} /\ WaitsFor(t) \subseteq S

\* C33: no interleaving of FetchPage, SyncPage and SyncAll calls, whose
\* callers may hold the lock of a page as Insert holds that of the root,
\* reaches a state in which goroutines wait for each other for ever.
C33_NoDeadlock == ~Deadlocked

\* ------------------------------------------------------------------------
\* Properties of concurrent fetches and evictions (SpecRace)
\* ------------------------------------------------------------------------
\* the goroutines whose FetchPage evicted a dirty page of id and has not
\* finished SyncPage of it
Flushing(id) ==
  {u \in Threads :
     /\ threads[u].ret = "fetch"
     /\ threads[u].pc \in {"sp_rlock", "sp_enter", "sp_lock", "sp_write"}
     /\ threads[u].sid = id
     /\ pages[threads[u].so].dirty}

\* the Page objects in use: cached, pinned by a caller, or a victim being
\* flushed
LivePages ==
  CachedPages \cup UNION {threads[t].held : t \in Threads}
              \cup {threads[u].so : u \in {t \in Threads :
                                             threads[t].ret = "fetch"}}

\* C34: a FetchPage(id) that misses the cache does not read id from storage
\* while a dirty page of id, evicted by another FetchPage, is not yet
\* flushed; and no two Page objects in use have the same id and different
\* contents.
C34_NoStaleRead ==
  /\ [][\A t \in Threads :
          (threads[t].pc = "fp_put" /\ Len(pages') > Len(pages)) =>
            Flushing(threads[t].id) = {}]_vars
  /\ [](\A o1, o2 \in LivePages :
          pages[o1].id = pages[o2].id => pages[o1].data = pages[o2].data)

\* ------------------------------------------------------------------------
\* Properties of failed flushes (SpecDisk)
\* ------------------------------------------------------------------------
\* the contents FetchPage(id) would return: those of the cached page, or
\* else those of the storage
Obtainable(id) ==
  IF id \in DOMAIN cache.values THEN pages[PageOf(cache, id)].data
  ELSE ReadAt(disk, GetOffset(nEntries, id))

\* C35: whatever writes fail, the latest contents of every page read since
\* NewPager remain obtainable: the page is still cached or the storage holds
\* its latest bytes, so that FetchPage never returns contents older than a
\* modification made before an eviction.
C35_LatestObtainable ==
  \A o \in DOMAIN pages : Obtainable(pages[o].id) >= pages[o].data

\* ------------------------------------------------------------------------
\* Properties of the flush of the allocation index (SpecAlloc)
\* ------------------------------------------------------------------------

\* C36: after a SyncAll whose SyncMetadata wrote the index page, the index
\* page is clean when that write succeeded and still dirty when it failed.
C36_IndexCleanIffWritten ==
  (last.op = "SyncAll" /\ last.writes # <<>>) =>
    /\ last.writes[1] = 0 => ~index.dirty
    /\ last.writes[1] = -1 => index.dirty

\* ------------------------------------------------------------------------
\* Structure of the LRU cache (SpecRemove)
\* ------------------------------------------------------------------------

\* C37: after any sequence of Get, Put and Remove calls the ids of
\* cache.values are the ids of the list, each once; the list read along
\* next from leastUsed is the list read along prev from recentlyUsed,
\* reversed, with nil before its first and after its last node; and values
\* holds at most capacity ids.
C37_CacheWellFormed ==
  LET fwd == ListOrder(cache) IN
  /\ {fwd[i] : i \in 1..Len(fwd)} = DOMAIN cache.values
  /\ Len(fwd) = Cardinality(DOMAIN cache.values)
  /\ BackOrder(cache) = Reverse(fwd)
  /\ cache.leastUsed # NilNode => cache.nodes[cache.leastUsed].prev = NilNode
  /\ cache.recentlyUsed # NilNode =>
       cache.nodes[cache.recentlyUsed].next = NilNode
  /\ (cache.leastUsed = NilNode) = (cache.recentlyUsed = NilNode)
  /\ Cardinality(DOMAIN cache.values) <= cache.capacity

\* ------------------------------------------------------------------------
\* Capacity of the nodes (Spec)
\* ------------------------------------------------------------------------

\* C38: after every completed Insert every leaf holds at most LeafNodeCap
\* entries and every branch, tree.root included, at most BranchNodeCap. A
\* split adds to the parent by one removal and two insertions, or by one
\* insertion, and nothing takes an entry away afterwards: the parent had
\* room at each insertion exactly when it holds at most BranchNodeCap
\* entries at the end.
C38_NoNodeOverCapacity ==
  NoError =>
    /\ \A id \in DOMAIN pg :
         pg[id].slotsTaken <= IF pg[id].isLeaf THEN LeafNodeCap
                              ELSE BranchNodeCap
    /\ root.slotsTaken <= BranchNodeCap
    /\ root.slotsTaken = pg[rootID].slotsTaken

\* an Insert has promoted a new root over three levels of branches and
\* some branch and some leaf are full
C38_Witness ==
  /\ NoError
  /\ last.op = "Insert"
  /\ rootID # 0
  /\ \E id \in DOMAIN pg : ~pg[id].isLeaf /\ pg[id].slotsTaken = BranchNodeCap
  /\ \E id \in DOMAIN pg : pg[id].isLeaf /\ pg[id].slotsTaken = LeafNodeCap
  /\ last.alloc >= 3

\* ------------------------------------------------------------------------
\* Specification with failing calls: one goroutine calls Insert and
\* Search, Forward and Close, one call after the other, on a tree whose
\* pager has few pages left (Insert fails with ErrNoFreePages) and whose
\* FetchPage may fail during a Search or a Forward
\* ------------------------------------------------------------------------
\* calls the goroutine makes
MaxErrCalls == 3
\* Forward calls on one cursor
MaxForwards == 2
\* pages the pager has left after the seed Inserts: 0..MaxErrSpare
MaxErrSpare == 3

ErrProc == "p1"

\* keys inserted: one for the left leaf, two for the full rightmost leaf
ErrKeys == ConcKeys

ErrSearchKeys == {0, MaxKey + 1, MaxKey + ConcSeedLen}

\* the pager during a call in which every read of the storage fails:
\* FetchPage returns an error for every page but page 0
FailingPager(st, ok) == IF ok THEN st ELSE [st EXCEPT !.n = 1]

\* a Search that keeps the read lock when FetchPage fails
SearchFailedLocked(m, page) == [m |-> m, fatal |-> NoErr]

\* FetchPage failed in Search: tree.root.page.RUnlock() before
\* return Cursor{err: err}
SearchFailed(m, page) == RUnlock(m, page)

ErrInit ==
  /\ \E spare \in 0..MaxErrSpare :
       TreeInit2(SeedPairs(ConcSeedLen),
                 IndexMaxEntriesPerPage - PagesUsed(SeedPairs(ConcSeedLen))
                   - spare)
  /\ procs = [p \in {ErrProc} |-> IdleProc]
  /\ rw = [w |-> {}, r |-> <<>>]
  /\ fatal = NoErr
  /\ PagerUnused

\* Insert is called: tree.root.page, the receiver of Lock, is evaluated
ErInsertCall(p) ==
  /\ fatal = NoErr
  /\ procs[p].pc = "idle"
  /\ procs[p].calls < MaxErrCalls
  /\ \E k \in ErrKeys \ InsertedKeys :
       procs' = [procs EXCEPT ![p].pc = "ins_lock", ![p].lk = root.page,
                              ![p].key = k]
  /\ UNCHANGED <<treeVars, rw, fatal, pagerVars>>

\* Search is called: tree.root.page, the receiver of RLock, is evaluated
ErSearchCall(p) ==
  /\ fatal = NoErr
  /\ procs[p].pc = "idle"
  /\ procs[p].calls < MaxErrCalls
  /\ \E k \in ErrSearchKeys :
       procs' = [procs EXCEPT ![p].pc = "se_rlock", ![p].lk = root.page,
                              ![p].key = k]
  /\ UNCHANGED <<treeVars, rw, fatal, pagerVars>>

\* node := tree.root and the descent to the leaf; when FetchPage fails,
\* Search unlocks tree.root.page and returns Cursor{err: err}
ErSeDescend(p) ==
  /\ fatal = NoErr
  /\ procs[p].pc = "se_descend"
  /\ \E ok \in BOOLEAN :
       LET c == Search(FailingPager(Cur, ok), procs[p].key) IN
       IF c.err # NoErr
       THEN /\ rw' = SearchFailed(rw, root.page).m
            /\ fatal' = SearchFailed(rw, root.page).fatal
            /\ procs' = [procs EXCEPT
                           ![p].pc = "cursor",
                           ![p].cur = [root |-> NoPage, idx |-> 0,
                                       node |-> NewView(FALSE, InvalidPageID),
                                       err |-> c.err, n |-> 0, ok |-> TRUE,
                                       rootNil |-> TRUE]]
       ELSE /\ procs' = [procs EXCEPT
                           ![p].pc = "se_return",
                           ![p].cur = [root |-> NoPage, idx |-> c.idx,
                                       node |-> c.node, err |-> NoErr,
                                       n |-> 0, ok |-> TRUE,
                                       rootNil |-> FALSE]]
            /\ UNCHANGED <<rw, fatal>>
  /\ UNCHANGED <<treeVars, pagerVars>>

\* Cursor.Forward; cur.ok is what it returned
ErForward(p) ==
  /\ fatal = NoErr
  /\ procs[p].pc = "cursor"
  /\ procs[p].cur.n < MaxForwards
  /\ \E ok \in BOOLEAN :
       LET cur == procs[p].cur
           f == Forward(FailingPager(Cur, ok),
                        [idx |-> cur.idx, node |-> cur.node, err |-> cur.err])
       IN procs' = [procs EXCEPT
                      ![p].cur = [cur EXCEPT !.idx = f.c.idx,
                                             !.node = f.c.node,
                                             !.err = f.c.err,
                                             !.n = @ + 1,
                                             !.ok = f.ok]]
  /\ UNCHANGED <<treeVars, rw, fatal, pagerVars>>

\* Cursor.Close: if cursor.root != nil { cursor.root.RUnlock() };
\* cur.rootNil says that cursor.root is nil
ErClose(p) ==
  /\ fatal = NoErr
  /\ procs[p].pc = "cursor"
  /\ IF ~procs[p].cur.rootNil
     THEN /\ rw' = RUnlock(rw, procs[p].cur.root).m
          /\ fatal' = RUnlock(rw, procs[p].cur.root).fatal
     ELSE UNCHANGED <<rw, fatal>>
  /\ procs' = [procs EXCEPT ![p] = Returned(procs[p])]
  /\ UNCHANGED <<treeVars, pagerVars>>

ErrNext ==
  \/ ErInsertCall(ErrProc)
  \/ InsLock(ErrProc)
  \/ InsDefer(ErrProc)
  \/ InsBody(ErrProc)
  \/ InsReturn(ErrProc)
  \/ ErSearchCall(ErrProc)
  \/ SeRLock(ErrProc)
  \/ ErSeDescend(ErrProc)
  \/ SeReturn(ErrProc)
  \/ ErForward(ErrProc)
  \/ ErClose(ErrProc)

SpecErr == ErrInit /\ [][ErrNext]_vars

\* C39: the locks of the root page are balanced on every path. A Search
\* whose descent failed has released the read lock when it returns, its
\* cursor holds the error and no root, Forward on it returns false, and
\* Close on it releases nothing; an Insert that returned an error has
\* released the writer lock; so between the calls, after successful and
\* failed ones, no page is locked, and no lock is released twice.
C39_RootLockBalanced ==
  /\ fatal = NoErr
  /\ procs[ErrProc].pc = "idle" => rw = [w |-> {}, r |-> <<>>]
  /\ (procs[ErrProc].pc = "cursor" /\ procs[ErrProc].cur.rootNil) =>
       /\ procs[ErrProc].cur.err # NoErr
       /\ rw = [w |-> {}, r |-> <<>>]
       /\ procs[ErrProc].cur.n > 0 => ~procs[ErrProc].cur.ok
  /\ (procs[ErrProc].pc = "cursor" /\ ~procs[ErrProc].cur.rootNil) =>
       /\ procs[ErrProc].cur.root = root.page
       /\ rw = [w |-> {}, r |-> (root.page :> 1)]
  /\ procs[ErrProc].pc \in {"ins_defer", "ins_body", "ins_return"} =>
       rw = [w |-> {procs[ErrProc].lk}, r |-> <<>>]

\* after an Insert that failed with ErrNoFreePages, a Search failed in its
\* descent and Forward was called on the cursor it returned
C39_Witness ==
  /\ procs[ErrProc].pc = "cursor"
  /\ procs[ErrProc].cur.rootNil
  /\ procs[ErrProc].cur.err # NoErr
  /\ procs[ErrProc].cur.n > 0
  /\ ~procs[ErrProc].cur.ok
  /\ last.op = "Insert"
  /\ last.err # NoErr
  /\ rw = [w |-> {}, r |-> <<>>]

====
